---------------------------- MODULE Spec2Model ----------------------------
(***************************************************************************)
(* A model of monolog, a single-node Kafka-wire-compatible broker.         *)
(*                                                                         *)
(* The module holds several specifications over one set of variables:      *)
(*   Spec        the SQLite topic store (internal/store/sqlite.go) used    *)
(*               by concurrent callers inside one process run;             *)
(*   SpecRead    the SQLite topic store with readers;                      *)
(*   SpecCrash   the SQLite topic store across crashes and restarts;       *)
(*   SpecBadger  the Badger topic store (internal/store/group.go);         *)
(*   SpecProduce concurrent Engine.Produce / ProduceRaw calls;             *)
(*   SpecConn    the Kafka connection loop and its authentication gate;    *)
(*   SpecGroup   the SQLite group store and the engine's group calls;      *)
(*   SpecMembers the SQLite group store with expiry sweeps, two groups;    *)
(*   SpecCoordinator  the Kafka group requests (JoinGroup, SyncGroup,      *)
(*               Heartbeat, LeaveGroup) over the engine;                   *)
(*   SpecPending the pending-fetch queue and the fetch scheduler;          *)
(*   SpecEngine  the running engine: its schedulers, under fairness;       *)
(*   SpecServer  the Kafka server's accept loop, connection handlers and   *)
(*               Close (SpecServerFair: under fair scheduling);            *)
(*   SpecRequests  concurrent Metadata, CreateTopics, ListOffsets and      *)
(*               Produce requests on one topic name;                       *)
(*   SpecSweep   retention runs beside appends, commits and ListOffsets;   *)
(*   SpecDelete  a topic created, appended to, read, deleted and created   *)
(*               again (SpecBadgerDelete: on the Badger store);            *)
(*   SpecVarInt  the codec's variable-length integers, written and read;   *)
(*   SpecCounts  the SQLite topic store called with every record count;    *)
(*   SpecFetch   the Fetch handler beside produces, retention runs and     *)
(*               topic deletion (SpecFetchKept: without deletion);         *)
(*   SpecOffsets the OffsetCommit and OffsetFetch handlers;                *)
(*   SpecTick    the pending-fetch queue with Process statement by         *)
(*               statement (SpecTickFair: the scheduler keeps running).    *)
(***************************************************************************)
EXTENDS Integers, Sequences, FiniteSets, TLC

(***************************************************************************)
(* Bounds of the model.                                                    *)
(***************************************************************************)
MaxAppends == 4         \* append calls in one behaviour
MaxRecs == 2            \* records (or record count) of one append
MaxTime == 2            \* the clock runs 1..MaxTime+1
MaxLimit == 2           \* largest maxRecords of a Read
MaxFrom == 4            \* largest fromOffset of a Read
MaxRequests == 3        \* requests the clients send in one behaviour
MaxOffset == 1          \* largest offset a consumer commits
MaxGeneration == 1      \* largest generation a group reaches
MaxRestarts == 1        \* restarts of the process in one behaviour
MaxSweeps == 2          \* expiry sweeps in one behaviour
MaxParked == 2          \* fetches parked in one behaviour
MaxTicks == 2           \* the count of runs of the fetch scheduler wraps after MaxTicks
MaxWait == 1            \* longest wait of a parked fetch, in clock ticks
MaxConnections == 1     \* config.Limits.MaxConnections of the modelled server

\* config.Retention.MaxAge, in clock ticks
MaxAge == 1

\* config.Groups.SessionTimeout, in clock ticks
SessionTimeout == 1

Topics == {"t1", "t2"}

VARIABLES
    now,            \* time.Now(), in ticks
    db_topics,      \* table topics: name -> [latest_offset]
    db_messages,    \* table messages: a set of rows
    topics,         \* SQLiteTopicStore.topics / TopicStore.topics: name -> TopicMeta
    appends,        \* number of append calls made so far (also the payload of the next one)
    hist,           \* per topic: the successful appends since it was created, in lock order
    synced,         \* the tables as of the last sync of the write-ahead log to disk
    res,            \* what the last Read returned, until the next call on the store
    prod,           \* the producers: where each is in Engine.Produce / ProduceRaw
    security,       \* config.Security
    conn,           \* the Kafka connections: each handler's position and its socket
    db_groups,      \* table groups: id -> row
    db_members,     \* table group_members: a set of rows
    db_offsets,     \* table group_offsets: <<group_id, topic>> -> committed_offset
    groups,         \* SQLiteGroupStore.groups: id -> Group
    joining,        \* Engine.JoinGroup calls between GetOrCreateGroup and AddMember
    acked,          \* <<group_id, topic>> -> the last commit that returned success
    boots,          \* restarts of the process so far
    script,         \* per group: how far a join, heartbeat..., leave run has come
    observed,       \* group id -> the generation IncrementGeneration last returned for it
    sweeps,         \* the calls of ExpireMembers so far, and what the last one returned
    kafka,          \* the Kafka group requests answered so far and the last answer
    carried,        \* member id -> the assignment bytes a SyncGroup request last carried for it
    pending,        \* PendingQueue.pending: the parked fetches, in the order they were added
    chans,          \* per parked fetch: its ResponseChan
    exited,         \* the connections whose handleConnection has returned
    ticks,          \* runs of FetchScheduler.process so far, modulo MaxTicks + 1
    sched,          \* PendingQueue.mu and the position of a Process that holds it
    server,         \* KafkaServer: listener, stopChan, connCount, connections, wg, goroutines
    calls,          \* the topic requests in flight: where each handler is, and its answer
    autoCreate      \* config.Topics.AutoCreate

topicVars == <<now, db_topics, db_messages, topics, appends, hist, res>>

coordVars == <<observed, sweeps, kafka, carried>>

groupVars == <<db_groups, db_members, db_offsets, groups, joining, acked, boots, script,
               coordVars>>

pendingVars == <<pending, chans, exited, ticks, sched>>

listenVars == <<server, calls, autoCreate>>

vars == <<now, db_topics, db_messages, topics, appends, hist, synced, res,
          prod, security, conn, db_groups, db_members, db_offsets, groups, joining,
          acked, boots, script, observed, sweeps, kafka, carried, pending, chans, exited,
          ticks, sched, server, calls, autoCreate>>

(***************************************************************************)
(* Maps (Go maps, and tables keyed by their primary key).                  *)
(***************************************************************************)
Put(f, k, v) == [x \in (DOMAIN f) \cup {k} |-> IF x = k THEN v ELSE f[x]]

Del(f, k) == [x \in (DOMAIN f) \ {k} |-> f[x]]

EmptyMap == [x \in {} |-> 0]

Min(a, b) == IF a < b THEN a ELSE b

(***************************************************************************)
(* Rows of table messages.                                                 *)
(***************************************************************************)
Row(topic, offset, lastOffset, ts, value) ==
    [topic |-> topic, offset |-> offset, last_offset |-> lastOffset,
     timestamp |-> ts, value |-> value]

RowsOf(msgs, topic) == {r \in msgs : r.topic = topic}

\* PRIMARY KEY (topic, offset): an INSERT of a key that is present fails.
KeyTaken(msgs, rows) ==
    \E r \in rows : \E q \in msgs : q.topic = r.topic /\ q.offset = r.offset

(***************************************************************************)
(* SQLiteTopicStore (internal/store/sqlite.go).  Every method runs under   *)
(* s.mu, so a call is one step.  `fail` names the statement of the         *)
(* transaction that returns an error ("none" when every statement          *)
(* succeeds); tx.Rollback then leaves the database as it was.              *)
(***************************************************************************)
Failures == {"none", "insert", "update", "commit"}

\* loadTopics: one TopicMeta per row of table topics
LoadTopics(dbt) == [name \in DOMAIN dbt |-> [LatestOffset |-> dbt[name].latest_offset]]

\* a base offset that reuses the latest offset
BaseOffsetReused(meta) == meta.LatestOffset

\* baseOffset := meta.LatestOffset + 1
BaseOffset(meta) == meta.LatestOffset + 1

\* newLatest := baseOffset + int64(len(records)) - 1
NewLatest(baseOffset, count) == baseOffset + count - 1

\* the rows Append inserts: one per record, offsets baseOffset, baseOffset+1, ...
AppendRows(topic, baseOffset, records, ts) ==
    { Row(topic,
          baseOffset + (i - 1),
          IF records[i].LastOffset > 0 THEN records[i].LastOffset
                                       ELSE baseOffset + (i - 1),
          IF records[i].Timestamp = 0 THEN ts ELSE records[i].Timestamp,
          records[i].Value) : i \in 1..Len(records) }

\* a batch row that covers its base offset only
AppendRawRowsShort(topic, baseOffset, data, recordCount, ts) ==
    { [topic |-> topic, offset |-> baseOffset, last_offset |-> baseOffset,
       timestamp |-> ts, value |-> data] }

\* the row AppendRaw inserts: the whole batch under its base offset
AppendRawRows(topic, baseOffset, data, recordCount, ts) ==
    { Row(topic, baseOffset, baseOffset + recordCount - 1, ts, data) }

\* UPDATE topics SET latest_offset = ? WHERE name = ?
UpdateLatest(dbt, topic, latest) ==
    IF topic \in DOMAIN dbt THEN Put(dbt, topic, [latest_offset |-> latest]) ELSE dbt

\* meta.LatestOffset = newLatest, after tx.Commit has succeeded
SetCachedLatest(cache, topic, latest) == Put(cache, topic, [LatestOffset |-> latest])

\* What a failed call leaves behind and returns.
Failed(dbt, msgs, cache) ==
    [db_topics |-> dbt, db_messages |-> msgs, topics |-> cache, ok |-> FALSE, base |-> 0]

\* The transaction shared by Append and AppendRaw: INSERT the rows, UPDATE
\* latest_offset, Commit, then update the cache and return baseOffset.
AppendTx(dbt, msgs, cache, topic, baseOffset, rows, latest, fail) ==
    IF fail = "insert" \/ KeyTaken(msgs, rows) THEN Failed(dbt, msgs, cache)
    ELSE IF fail = "update" THEN Failed(dbt, msgs, cache)
    ELSE IF fail = "commit" THEN Failed(dbt, msgs, cache)
    ELSE [db_topics |-> UpdateLatest(dbt, topic, latest),
          db_messages |-> msgs \cup rows,
          topics |-> SetCachedLatest(cache, topic, latest),
          ok |-> TRUE, base |-> baseOffset]

SQLiteAppend(dbt, msgs, cache, topic, records, ts, fail) ==
    IF topic \notin DOMAIN cache THEN Failed(dbt, msgs, cache)
    ELSE LET baseOffset == BaseOffset(cache[topic])
         IN  AppendTx(dbt, msgs, cache, topic, baseOffset,
                      AppendRows(topic, baseOffset, records, ts),
                      NewLatest(baseOffset, Len(records)), fail)

SQLiteAppendRaw(dbt, msgs, cache, topic, data, recordCount, ts, fail) ==
    IF topic \notin DOMAIN cache THEN Failed(dbt, msgs, cache)
    ELSE LET baseOffset == BaseOffset(cache[topic])
         IN  AppendTx(dbt, msgs, cache, topic, baseOffset,
                      AppendRawRows(topic, baseOffset, data, recordCount, ts),
                      NewLatest(baseOffset, recordCount), fail)

\* ORDER BY offset ASC LIMIT k (a negative LIMIT is no limit in SQLite)
RECURSIVE OrderByOffsetLimit(_, _)
OrderByOffsetLimit(rows, k) ==
    IF rows = {} \/ k = 0 THEN <<>>
    ELSE LET first == CHOOSE r \in rows : \A q \in rows : r.offset <= q.offset
         IN  <<first>> \o OrderByOffsetLimit(rows \ {first}, k - 1)

\* a filter on the first offset of a row instead of its last
ReadWhereOffset(msgs, topic, fromOffset) ==
    {r \in msgs : r.topic = topic /\ r.offset >= fromOffset}

\* WHERE topic = ? AND last_offset >= ?
ReadWhere(msgs, topic, fromOffset) ==
    {r \in RowsOf(msgs, topic) : r.last_offset >= fromOffset}

\* rows.Scan into store.Record
ScanRecord(r) ==
    [Offset |-> r.offset, LastOffset |-> r.last_offset,
     Timestamp |-> r.timestamp, Value |-> r.value]

SQLiteRead(msgs, cache, topic, fromOffset, maxRecords) ==
    IF topic \notin DOMAIN cache THEN [ok |-> FALSE, records |-> <<>>]
    ELSE LET found == OrderByOffsetLimit(ReadWhere(msgs, topic, fromOffset), maxRecords)
         IN  [ok |-> TRUE, records |-> [i \in 1..Len(found) |-> ScanRecord(found[i])]]

\* LatestOffset: the cached value
LatestOffset(cache, topic) == cache[topic].LatestOffset

\* a DELETE that also takes the rows stamped with the cutoff itself
DeleteBeforeRowsAtCutoff(msgs, topic, cutoff) ==
    {r \in RowsOf(msgs, topic) : r.timestamp <= cutoff}

\* DELETE FROM messages WHERE topic = ? AND timestamp < ?
DeleteBeforeRows(msgs, topic, cutoff) ==
    {r \in RowsOf(msgs, topic) : r.timestamp < cutoff}

(***************************************************************************)
(* The calls on the SQLite topic store, as steps.                          *)
(***************************************************************************)
\* variables a call on the topic store leaves alone
notTopicStore == <<synced, prod, security, listenVars, conn, groupVars, pendingVars>>

\* the records a caller hands to Append: Key and Value only (http.go
\* handleMessages), the payload being this call's number
RecordsOf(call, n) ==
    [i \in 1..n |-> [Timestamp |-> 0, LastOffset |-> 0, Value |-> <<call, i>>]]

AckAppend(h, topic, out, n, call, raw) ==
    IF out.ok
    THEN [h EXCEPT ![topic] = Append(@, [base |-> out.base, n |-> n, id |-> call, raw |-> raw])]
    ELSE h

\* no Read result is at hand
NoResult == [op |-> "none"]

TopicsInit ==
    /\ now = 1
    /\ db_topics = EmptyMap
    /\ db_messages = {}
    /\ topics = EmptyMap
    /\ appends = 0
    /\ hist = [t \in Topics |-> <<>>]
    /\ synced = [topics |-> EmptyMap, messages |-> {}]
    /\ res = NoResult

\* a CreateTopic that checks nothing and replaces the topic's row
SQLiteCreateTopicBlind(dbt, cache, name, fail) ==
    IF fail
    THEN [db_topics |-> dbt, topics |-> cache, ok |-> FALSE]
    ELSE [db_topics |-> Put(dbt, name, [latest_offset |-> -1]),
          topics |-> Put(cache, name, [LatestOffset |-> -1]),
          ok |-> TRUE]

\* CreateTopic under s.mu: the cache is checked, the row inserted, the cache set
SQLiteCreateTopic(dbt, cache, name, fail) ==
    IF name \in DOMAIN cache \/ fail \/ name \in DOMAIN dbt
    THEN [db_topics |-> dbt, topics |-> cache, ok |-> FALSE]
    ELSE [db_topics |-> Put(dbt, name, [latest_offset |-> -1]),
          topics |-> Put(cache, name, [LatestOffset |-> -1]),
          ok |-> TRUE]

\* SQLiteTopicStore.CreateTopic
CreateTopic(name, fail) ==
    /\ LET out == SQLiteCreateTopic(db_topics, topics, name, fail)
       IN  /\ db_topics' = out.db_topics
           /\ topics' = out.topics
           /\ hist' = IF out.ok THEN [hist EXCEPT ![name] = <<>>] ELSE hist
    /\ res' = NoResult
    /\ UNCHANGED <<now, db_messages, appends, notTopicStore>>

\* a DeleteTopic that leaves the topic's rows in table messages
DeleteTopicRowsKept(msgs, name) == msgs

\* DELETE FROM messages WHERE topic = ?: the rows that remain
DeleteTopicRows(msgs, name) == msgs \ RowsOf(msgs, name)

\* SQLiteTopicStore.DeleteTopic
DeleteTopic(name, fail) ==
    /\ IF name \notin DOMAIN topics \/ fail
       THEN UNCHANGED <<db_topics, db_messages, topics, hist>>
       ELSE /\ db_messages' = DeleteTopicRows(db_messages, name)
            /\ db_topics' = Del(db_topics, name)
            /\ topics' = Del(topics, name)
            /\ hist' = [hist EXCEPT ![name] = <<>>]
    /\ res' = NoResult
    /\ UNCHANGED <<now, appends, notTopicStore>>

\* SQLiteTopicStore.Append
StoreAppend(topic, n, fail) ==
    /\ appends < MaxAppends
    /\ LET call == appends + 1
           out == SQLiteAppend(db_topics, db_messages, topics, topic,
                               RecordsOf(call, n), now, fail)
       IN  /\ db_topics' = out.db_topics
           /\ db_messages' = out.db_messages
           /\ topics' = out.topics
           /\ hist' = AckAppend(hist, topic, out, n, call, FALSE)
           /\ appends' = call
    /\ res' = NoResult
    /\ UNCHANGED <<now, notTopicStore>>

\* SQLiteTopicStore.AppendRaw
StoreAppendRaw(topic, recordCount, fail) ==
    /\ appends < MaxAppends
    /\ LET call == appends + 1
           out == SQLiteAppendRaw(db_topics, db_messages, topics, topic,
                                  <<call, 0>>, recordCount, now, fail)
       IN  /\ db_topics' = out.db_topics
           /\ db_messages' = out.db_messages
           /\ topics' = out.topics
           /\ hist' = AckAppend(hist, topic, out, recordCount, call, TRUE)
           /\ appends' = call
    /\ res' = NoResult
    /\ UNCHANGED <<now, notTopicStore>>

\* SQLiteTopicStore.Read
StoreRead(topic, fromOffset, maxRecords) ==
    /\ LET out == SQLiteRead(db_messages, topics, topic, fromOffset, maxRecords)
       IN  res' = [op |-> "Read", topic |-> topic, ok |-> out.ok, from |-> fromOffset,
                   limit |-> maxRecords, records |-> out.records]
    /\ UNCHANGED <<now, db_topics, db_messages, topics, appends, hist,
                   notTopicStore>>

\* SQLiteTopicStore.DeleteBefore, called by RetentionScheduler.cleanup with
\* cutoff := time.Now().Add(-MaxAge)
DeleteBefore(topic) ==
    /\ topic \in DOMAIN topics
    /\ LET gone == DeleteBeforeRows(db_messages, topic, now - MaxAge)
       IN  db_messages' = db_messages \ gone
    /\ res' = NoResult
    /\ UNCHANGED <<now, db_topics, topics, appends, hist, notTopicStore>>

\* the clock advances
Tick ==
    /\ now <= MaxTime
    /\ now' = now + 1
    /\ UNCHANGED <<db_topics, db_messages, topics, appends, hist, res,
                   notTopicStore>>

\* the parts of the state a specification leaves alone
ProducersIdle == prod = EmptyMap

ConnsNone == security = [Enabled |-> FALSE, Token |-> ""] /\ conn = EmptyMap

NoAnswer == [n |-> 0, api |-> "none", group |-> "", member |-> "", bytes |-> ""]

CoordInit ==
    /\ observed = EmptyMap
    /\ sweeps = [n |-> 0, expired |-> {}]
    /\ kafka = NoAnswer
    /\ carried = EmptyMap

\* q.mu is free and no Process is running
SchedIdle == [mu |-> "free", todo |-> <<>>, still |-> <<>>, at |-> 0]

PendingNone ==
    pending = <<>> /\ chans = EmptyMap /\ exited = {} /\ ticks = 0 /\ sched = SchedIdle

\* config.Topics.AutoCreate (DefaultConfig)
AutoCreate == TRUE

ServerNone == server = EmptyMap /\ calls = EmptyMap /\ autoCreate = AutoCreate

GroupsNone ==
    /\ db_groups = EmptyMap
    /\ db_members = {}
    /\ db_offsets = EmptyMap
    /\ groups = EmptyMap
    /\ joining = {}
    /\ acked = EmptyMap
    /\ boots = 0
    /\ script = EmptyMap
    /\ CoordInit

Init == TopicsInit /\ ProducersIdle /\ ConnsNone /\ GroupsNone /\ PendingNone /\ ServerNone

Next ==
    \/ \E t \in Topics, fail \in BOOLEAN : CreateTopic(t, fail)
    \/ \E t \in Topics, fail \in BOOLEAN : DeleteTopic(t, fail)
    \/ \E t \in Topics, n \in 1..MaxRecs, fail \in Failures : StoreAppend(t, n, fail)
    \/ \E t \in Topics, n \in 1..MaxRecs, fail \in Failures : StoreAppendRaw(t, n, fail)
    \/ \E t \in Topics : DeleteBefore(t)
    \/ Tick

Spec == Init /\ [][Next]_vars

\* The topic store with readers, within one retention period.
NextRead ==
    \/ \E t \in Topics : CreateTopic(t, FALSE)
    \/ \E t \in Topics, n \in 1..MaxRecs : StoreAppend(t, n, "none")
    \/ \E t \in Topics, n \in 1..MaxRecs : StoreAppendRaw(t, n, "none")
    \/ \E t \in Topics, from \in 0..MaxFrom, k \in 0..MaxLimit : StoreRead(t, from, k)

SpecRead == Init /\ [][NextRead]_vars

(***************************************************************************)
(* Crashes.  OpenSQLite opens the database with _journal_mode=WAL and      *)
(* _synchronous=NORMAL: a commit appends to the write-ahead log without    *)
(* syncing it, and the log is synced when SQLite checkpoints it.  A        *)
(* process that is killed loses nothing the operating system holds; a host *)
(* that crashes or loses power may lose the log written since its last     *)
(* sync.  On restart NewSQLiteTopicStore loads the cache from the tables.  *)
(***************************************************************************)
\* SQLite checkpoints the write-ahead log
WalCheckpoint ==
    /\ synced # [topics |-> db_topics, messages |-> db_messages]
    /\ synced' = [topics |-> db_topics, messages |-> db_messages]
    /\ UNCHANGED <<topicVars, prod, security, listenVars, conn, groupVars, pendingVars>>

\* the tables a restart finds: all of them after a kill of the process,
\* the synced ones when the host went down and the unsynced log is lost
Recovered(dbt, msgs, disk, lost) ==
    IF lost THEN disk ELSE [topics |-> dbt, messages |-> msgs]

\* the process stops (lost = FALSE: it is killed; lost = TRUE: the host
\* crashes and the unsynced log is lost) and is started again
Crash(lost) ==
    /\ LET found == Recovered(db_topics, db_messages, synced, lost)
       IN  /\ db_topics' = found.topics
           /\ db_messages' = found.messages
           /\ topics' = LoadTopics(found.topics)
    /\ res' = NoResult
    /\ UNCHANGED <<now, appends, hist, synced, prod, security, listenVars, conn, groupVars, pendingVars>>

NextCrash ==
    \/ \E t \in Topics : CreateTopic(t, FALSE)
    \/ \E t \in Topics, n \in 1..MaxRecs : StoreAppend(t, n, "none")
    \/ \E t \in Topics, n \in 1..MaxRecs : StoreAppendRaw(t, n, "none")
    \/ WalCheckpoint
    \/ \E lost \in BOOLEAN : Crash(lost)

SpecCrash == Init /\ [][NextCrash]_vars

(***************************************************************************)
(* TopicStore, the Badger backend (internal/store/group.go).  db_topics    *)
(* holds the keys topics:<t>:meta and db_messages the keys                 *)
(* topics:<t>:msg:<timestamp>:<offset>.  A write is one db.Update          *)
(* transaction; `fail` names its step that returns an error.               *)
(***************************************************************************)
BadgerFailures == {"none", "set_record", "set_meta", "commit"}

\* txn.Set of message keys: a key that is present is overwritten
BadgerSet(msgs, rows) ==
    {q \in msgs : ~\E r \in rows : /\ r.topic = q.topic
                                    /\ r.timestamp = q.timestamp
                                    /\ r.offset = q.offset} \cup rows

\* the records Append marshals: Offset is set, LastOffset is the caller's
BadgerAppendRows(topic, baseOffset, records, ts) ==
    { Row(topic,
          baseOffset + (i - 1),
          records[i].LastOffset,
          IF records[i].Timestamp = 0 THEN ts ELSE records[i].Timestamp,
          records[i].Value) : i \in 1..Len(records) }

\* The Update closure shared by Append and AppendRaw.  It sets
\* meta.LatestOffset on the cached TopicMeta before it sets the meta key, so
\* an error of that Set or of the commit discards the writes and keeps the
\* cached offset.
BadgerAppendTx(dbt, msgs, cache, topic, baseOffset, rows, latest, fail) ==
    IF fail = "set_record" THEN Failed(dbt, msgs, cache)
    ELSE IF fail \in {"set_meta", "commit"}
    THEN [db_topics |-> dbt, db_messages |-> msgs,
          topics |-> SetCachedLatest(cache, topic, latest), ok |-> FALSE, base |-> 0]
    ELSE [db_topics |-> UpdateLatest(dbt, topic, latest),
          db_messages |-> BadgerSet(msgs, rows),
          topics |-> SetCachedLatest(cache, topic, latest),
          ok |-> TRUE, base |-> baseOffset]

BadgerAppend(dbt, msgs, cache, topic, records, ts, fail) ==
    IF topic \notin DOMAIN cache THEN Failed(dbt, msgs, cache)
    ELSE LET baseOffset == BaseOffset(cache[topic])
         IN  BadgerAppendTx(dbt, msgs, cache, topic, baseOffset,
                            BadgerAppendRows(topic, baseOffset, records, ts),
                            NewLatest(baseOffset, Len(records)), fail)

BadgerAppendRaw(dbt, msgs, cache, topic, data, recordCount, ts, fail) ==
    IF topic \notin DOMAIN cache THEN Failed(dbt, msgs, cache)
    ELSE LET baseOffset == BaseOffset(cache[topic])
         IN  BadgerAppendTx(dbt, msgs, cache, topic, baseOffset,
                            AppendRawRows(topic, baseOffset, data, recordCount, ts),
                            NewLatest(baseOffset, recordCount), fail)

\* TopicStore.CreateTopic
BadgerCreateTopic(name, fail) ==
    /\ IF name \in DOMAIN topics \/ fail
       THEN UNCHANGED <<db_topics, topics, hist>>
       ELSE /\ db_topics' = Put(db_topics, name, [latest_offset |-> -1])
            /\ topics' = Put(topics, name, [LatestOffset |-> -1])
            /\ hist' = [hist EXCEPT ![name] = <<>>]
    /\ res' = NoResult
    /\ UNCHANGED <<now, db_messages, appends, notTopicStore>>

\* TopicStore.Append
BadgerStoreAppend(topic, n, fail) ==
    /\ appends < MaxAppends
    /\ LET call == appends + 1
           out == BadgerAppend(db_topics, db_messages, topics, topic,
                               RecordsOf(call, n), now, fail)
       IN  /\ db_topics' = out.db_topics
           /\ db_messages' = out.db_messages
           /\ topics' = out.topics
           /\ hist' = AckAppend(hist, topic, out, n, call, FALSE)
           /\ appends' = call
    /\ res' = NoResult
    /\ UNCHANGED <<now, notTopicStore>>

\* TopicStore.AppendRaw
BadgerStoreAppendRaw(topic, recordCount, fail) ==
    /\ appends < MaxAppends
    /\ LET call == appends + 1
           out == BadgerAppendRaw(db_topics, db_messages, topics, topic,
                                  <<call, 0>>, recordCount, now, fail)
       IN  /\ db_topics' = out.db_topics
           /\ db_messages' = out.db_messages
           /\ topics' = out.topics
           /\ hist' = AckAppend(hist, topic, out, recordCount, call, TRUE)
           /\ appends' = call
    /\ res' = NoResult
    /\ UNCHANGED <<now, notTopicStore>>

NextBadger ==
    \/ \E t \in Topics, fail \in BOOLEAN : BadgerCreateTopic(t, fail)
    \/ \E t \in Topics, n \in 1..MaxRecs, fail \in BadgerFailures :
          BadgerStoreAppend(t, n, fail)
    \/ \E t \in Topics, n \in 1..MaxRecs, fail \in BadgerFailures :
          BadgerStoreAppendRaw(t, n, fail)
    \/ Tick

SpecBadger == Init /\ [][NextBadger]_vars

(***************************************************************************)
(* Engine.Produce and Engine.ProduceRaw (engine.go), called by the HTTP    *)
(* handler with one record and by the Kafka Produce handler with record    *)
(* count 1.  Each call runs on its caller's goroutine and takes the        *)
(* store's lock three times: TopicExists, CreateTopic, Append.  prod[p] is *)
(* where producer p is in its call.                                        *)
(***************************************************************************)
Producers == {"p1", "p2"}

\* TopicExists, under s.mu.RLock
TopicExists(cache, name) == name \in DOMAIN cache

\* what a finished call returned
Returned(p, ok, base) ==
    [pc |-> "done", topic |-> prod[p].topic, raw |-> prod[p].raw, ok |-> ok, base |-> base]

\* a caller enters Produce (raw = FALSE) or ProduceRaw (raw = TRUE)
ProduceCall(p, topic, raw) ==
    /\ prod[p].pc \in {"idle", "done"}
    /\ appends + Cardinality({q \in Producers : prod[q].pc \notin {"idle", "done"}})
          < MaxAppends
    /\ prod' = [prod EXCEPT ![p] =
                   [pc |-> "EnsureTopic", topic |-> topic, raw |-> raw, count |-> 1]]
    /\ UNCHANGED <<topicVars, synced, security, listenVars, conn, groupVars, pendingVars>>

\* EnsureTopic: the TopicExists check, and the AutoCreate check
EnsureTopicCheck(p) ==
    /\ prod[p].pc = "EnsureTopic"
    /\ prod' = [prod EXCEPT ![p] =
                   IF TopicExists(topics, prod[p].topic) THEN [@ EXCEPT !.pc = "Append"]
                   ELSE IF ~autoCreate THEN Returned(p, FALSE, 0)
                   ELSE [@ EXCEPT !.pc = "CreateTopic"]]
    /\ UNCHANGED <<topicVars, synced, security, listenVars, conn, groupVars, pendingVars>>

\* EnsureTopic: return e.topicStore.CreateTopic(name); its error ends the call
EnsureTopicCreate(p, fail) ==
    /\ prod[p].pc = "CreateTopic"
    /\ LET out == SQLiteCreateTopic(db_topics, topics, prod[p].topic, fail)
       IN  /\ db_topics' = out.db_topics
           /\ topics' = out.topics
           /\ hist' = IF out.ok THEN [hist EXCEPT ![prod[p].topic] = <<>>] ELSE hist
           /\ prod' = [prod EXCEPT ![p] =
                          IF out.ok THEN [@ EXCEPT !.pc = "Append"]
                                    ELSE Returned(p, FALSE, 0)]
    /\ res' = NoResult
    /\ UNCHANGED <<now, db_messages, appends, synced, security, listenVars, conn, groupVars, pendingVars>>

\* return e.topicStore.Append(topic, records) /
\* AppendRaw(topic, data, codec, recordCount)
ProduceAppend(p, fail) ==
    /\ prod[p].pc = "Append"
    /\ LET call == appends + 1
           topic == prod[p].topic
           out == IF prod[p].raw
                  THEN SQLiteAppendRaw(db_topics, db_messages, topics, topic,
                                       <<call, 0>>, prod[p].count, now, fail)
                  ELSE SQLiteAppend(db_topics, db_messages, topics, topic,
                                    RecordsOf(call, 1), now, fail)
       IN  /\ db_topics' = out.db_topics
           /\ db_messages' = out.db_messages
           /\ topics' = out.topics
           /\ hist' = AckAppend(hist, topic, out, prod[p].count, call, prod[p].raw)
           /\ appends' = call
           /\ prod' = [prod EXCEPT ![p] = Returned(p, out.ok, out.base)]
    /\ res' = NoResult
    /\ UNCHANGED <<now, synced, security, listenVars, conn, groupVars, pendingVars>>

ProducersInit == prod = [p \in Producers |-> [pc |-> "idle"]]

InitProduce == TopicsInit /\ ProducersInit /\ ConnsNone /\ GroupsNone /\ PendingNone /\ ServerNone

\* concurrent producers and no storage error
NextProduce ==
    \/ \E p \in Producers, t \in Topics, raw \in BOOLEAN : ProduceCall(p, t, raw)
    \/ \E p \in Producers : EnsureTopicCheck(p)
    \/ \E p \in Producers : EnsureTopicCreate(p, FALSE)
    \/ \E p \in Producers : ProduceAppend(p, "none")

SpecProduce == InitProduce /\ [][NextProduce]_vars

(***************************************************************************)
(* The Kafka listener (internal/server/kafka.go).  Each accepted           *)
(* connection has its own goroutine running handleConnection: read a       *)
(* frame, handleRequest, write the response, again.  conn[c] holds that    *)
(* goroutine's position and locals, the socket's two directions, and the   *)
(* log of what it read.  A Produce request runs Engine.ProduceRaw on the   *)
(* connection's goroutine (prod[c]).                                       *)
(***************************************************************************)
Conns == {"c1", "c2"}

\* what a client may put on the wire: a request of some API, a frame whose
\* header does not decode, a frame whose size field is out of range
Apis == {"ApiVersions", "SaslHandshake", "SaslAuthenticate", "Produce", "Unknown",
         "Malformed", "BadSize"}

Passwords == {"tok", "bad"}

NoRequest == [corr |-> 0, api |-> "none", password |-> ""]

NoResponse == [corr |-> 0, error |-> "none"]

\* handleConnection: authenticated := !s.config.Security.Enabled
Accepted(enabled) ==
    [open |-> TRUE, authenticated |-> ~enabled, sasl |-> FALSE, pc |-> "read",
     inbox |-> <<>>, cur |-> NoRequest, resp |-> NoResponse, out |-> <<>>,
     readLog |-> <<>>, sent |-> 0]

\* the APIs handleRequest lets through before authentication
AuthExempt == {"SaslHandshake", "SaslAuthenticate", "ApiVersions"}

\* a gate that also lets Produce through
DeniedExceptProduce(authenticated, api) ==
    ~authenticated /\ api \notin (AuthExempt \cup {"Produce"})

\* handleRequest: the authentication check
Denied(authenticated, api) == ~authenticated /\ api \notin AuthExempt

\* an error response that carries correlation id 0
ErrorResponseNoCorr(corr, code) == [corr |-> 0, error |-> code]

\* errorResponse(correlationID, errorCode)
ErrorResponse(corr, code) == [corr |-> corr, error |-> code]

\* a write that lands ahead of what the socket already holds
ConnWriteAhead(out, response) == <<response>> \o out

\* conn.Write(response)
ConnWrite(out, response) == Append(out, response)

notConn == <<topicVars, synced, prod, security, listenVars, groupVars, pendingVars>>

\* the requests the clients have sent
Sent == conn["c1"].sent + conn["c2"].sent

\* a client writes a request to its connection
ClientSend(c, api, password) ==
    /\ conn[c].open
    /\ Sent < MaxRequests
    /\ conn' = [conn EXCEPT ![c] =
                   [@ EXCEPT !.sent = @ + 1,
                             !.inbox = Append(@, [corr |-> conn[c].sent + 1, api |-> api,
                                                  password |-> password])]]
    /\ UNCHANGED notConn

\* handleConnection: read the size and the body of the next frame; a size
\* out of range ends the connection
ReadRequest(c) ==
    /\ conn[c].open /\ conn[c].pc = "read"
    /\ conn[c].inbox # <<>>
    /\ LET r == Head(conn[c].inbox)
       IN  conn' = [conn EXCEPT ![c] =
                      IF r.api = "BadSize"
                      THEN [@ EXCEPT !.open = FALSE, !.pc = "closed", !.inbox = <<>>]
                      ELSE [@ EXCEPT !.pc = "handle", !.cur = r, !.inbox = Tail(@),
                                     !.readLog = Append(@, r)]]
    /\ UNCHANGED notConn

\* the partition indexes a Produce entry names, and the numbers of logical
\* records its batch carries
PartitionIndexes == {0, 1}

BatchRecords == {1, 2}

\* a record count taken from the batch
WireRecordCountOfBatch(records) == records

\* handleProduce: the recordCount it passes to Engine.ProduceRaw
WireRecordCount(records) == 1

\* the Produce request as handleProduce decodes it: one topic with one
\* partition entry
DecodedProduce(r, index, records) ==
    [corr |-> r.corr, api |-> r.api, password |-> r.password,
     index |-> index, records |-> records]

\* handleRequest, up to the handler's return (Produce: up to its call of
\* Engine.ProduceRaw)
HandleRequest(c) ==
    /\ conn[c].pc = "handle"
    /\ LET r == conn[c].cur
           answer(code) == [conn EXCEPT ![c] = [@ EXCEPT !.pc = "write",
                                                        !.resp = ErrorResponse(r.corr, code)]]
       IN  IF r.api = "Malformed"
           THEN /\ conn' = [conn EXCEPT ![c] = [@ EXCEPT !.pc = "read", !.cur = NoRequest]]
                /\ UNCHANGED prod
           ELSE IF Denied(conn[c].authenticated, r.api)
           THEN /\ conn' = answer("SASL_AUTHENTICATION_FAILED")
                /\ UNCHANGED prod
           ELSE IF r.api \in {"ApiVersions", "SaslHandshake"}
           THEN /\ conn' = answer("NONE")
                /\ UNCHANGED prod
           ELSE IF r.api = "SaslAuthenticate"
           THEN /\ conn' = IF r.password = security.Token
                           THEN [answer("NONE") EXCEPT ![c].authenticated = TRUE,
                                                       ![c].sasl = TRUE]
                           ELSE answer("SASL_AUTHENTICATION_FAILED")
                /\ UNCHANGED prod
           ELSE IF r.api = "Produce"
           THEN \E index \in PartitionIndexes, records \in BatchRecords :
                /\ conn' = [conn EXCEPT ![c] =
                               [@ EXCEPT !.pc = "produce",
                                         !.cur = DecodedProduce(r, index, records)]]
                /\ prod' = [prod EXCEPT ![c] =
                               [pc |-> "EnsureTopic", topic |-> "t1", raw |-> TRUE,
                                count |-> WireRecordCount(records)]]
           ELSE /\ conn' = answer("UNSUPPORTED_VERSION")
                /\ UNCHANGED prod
    /\ UNCHANGED <<topicVars, synced, security, listenVars, groupVars, pendingVars>>

\* handleProduce, from the return of Engine.ProduceRaw
ProduceReturn(c) ==
    /\ conn[c].pc = "produce"
    /\ prod[c].pc = "done"
    /\ conn' = [conn EXCEPT ![c] =
                   [@ EXCEPT !.pc = "write",
                             !.resp = [corr |-> conn[c].cur.corr,
                                       index |-> conn[c].cur.index,
                                       error |-> IF prod[c].ok
                                                 THEN "NONE"
                                                 ELSE "UNKNOWN_TOPIC_OR_PARTITION",
                                       base |-> prod[c].base]]]
    /\ prod' = [prod EXCEPT ![c] = [pc |-> "idle"]]
    /\ UNCHANGED <<topicVars, synced, security, listenVars, groupVars, pendingVars>>

\* handleConnection: write the response and loop
WriteResponse(c) ==
    /\ conn[c].pc = "write"
    /\ conn' = [conn EXCEPT ![c] =
                   [@ EXCEPT !.pc = "read", !.cur = NoRequest, !.resp = NoResponse,
                             !.out = ConnWrite(@, conn[c].resp)]]
    /\ UNCHANGED notConn

\* config.Security: disabled by default, or a token from the environment
ConnsInit ==
    /\ security \in {[Enabled |-> FALSE, Token |-> ""], [Enabled |-> TRUE, Token |-> "tok"]}
    /\ conn = [c \in Conns |-> Accepted(security.Enabled)]
    /\ prod = [c \in Conns |-> [pc |-> "idle"]]

InitConn == TopicsInit /\ ConnsInit /\ GroupsNone /\ PendingNone /\ ServerNone

NextConn ==
    \/ \E c \in Conns, api \in Apis \ {"SaslAuthenticate"} : ClientSend(c, api, "")
    \/ \E c \in Conns, pw \in Passwords : ClientSend(c, "SaslAuthenticate", pw)
    \/ \E c \in Conns : ReadRequest(c)
    \/ \E c \in Conns : HandleRequest(c)
    \/ \E c \in Conns : EnsureTopicCheck(c)
    \/ \E c \in Conns : EnsureTopicCreate(c, FALSE)
    \/ \E c \in Conns, fail \in {"none", "commit"} : ProduceAppend(c, fail)
    \/ \E c \in Conns : ProduceReturn(c)
    \/ \E c \in Conns : WriteResponse(c)

SpecConn == InitConn /\ [][NextConn]_vars

(***************************************************************************)
(* SQLiteGroupStore (internal/store/sqlite.go) and the engine's group      *)
(* calls (engine.go).  Every store method runs under s.mu.  `fail` says    *)
(* that the method's statement returns an error; `metaFail` that the       *)
(* UPDATE of updateGroupMeta, whose error is dropped, does.                *)
(***************************************************************************)
Groups == {"g1"}

\* the groups of the specifications that sweep members
GroupIds == {"g1", "g2"}

Members == {"m1", "m2"}

\* the Group GetOrCreateGroup builds
NewGroup ==
    [State |-> "empty", Generation |-> 0, LeaderID |-> "",
     Members |-> EmptyMap, Offsets |-> EmptyMap]

\* the columns updateGroupMeta writes
GroupRow(group) ==
    [state |-> group.State, generation |-> group.Generation, leader_id |-> group.LeaderID]

\* updateGroupMeta: UPDATE groups SET ... WHERE id = ?, its error dropped
UpdateGroupMeta(dbg, id, group, metaFail) ==
    IF metaFail \/ id \notin DOMAIN dbg THEN dbg ELSE Put(dbg, id, GroupRow(group))

\* loadMembers: the rows of group_members of one group
LoadMembers(dbm, id) ==
    LET rows == {r \in dbm : r.group_id = id}
    IN  [m \in {r.member_id : r \in rows} |->
            LET row == CHOOSE r \in rows : r.member_id = m
            IN  [LastHeartbeat |-> row.last_heartbeat, Assignment |-> row.assignment]]

\* an offsets load that finds nothing
LoadOffsetsNone(dbo, id) == EmptyMap

\* loadOffsets: the rows of group_offsets of one group
LoadOffsets(dbo, id) ==
    [t \in {k[2] : k \in {x \in DOMAIN dbo : x[1] = id}} |-> dbo[<<id, t>>]]

\* loadGroups: every row of table groups, with its members and offsets
LoadGroups(dbg, dbm, dbo) ==
    [id \in DOMAIN dbg |->
        [State |-> dbg[id].state, Generation |-> dbg[id].generation,
         LeaderID |-> dbg[id].leader_id,
         Members |-> LoadMembers(dbm, id), Offsets |-> LoadOffsets(dbo, id)]]

\* INSERT OR REPLACE INTO group_members, PRIMARY KEY (group_id, member_id)
ReplaceMember(dbm, id, memberID, ts) ==
    {r \in dbm : ~(r.group_id = id /\ r.member_id = memberID)}
        \cup {[group_id |-> id, member_id |-> memberID, last_heartbeat |-> ts,
                assignment |-> ""]}

\* AddMember: the group after the member is put into its map
WithMember(group, memberID, ts) ==
    LET members == Put(group.Members, memberID, [LastHeartbeat |-> ts, Assignment |-> ""])
    IN  [group EXCEPT !.Members = members,
                      !.LeaderID = IF Cardinality(DOMAIN members) = 1 THEN memberID ELSE @,
                      !.State = IF @ = "empty" THEN "forming" ELSE @]

\* a removal that keeps the leader of a group it empties
LeaderKept(remaining, leader, memberID, pick) ==
    IF leader = memberID /\ remaining # {} THEN pick ELSE leader

\* RemoveMember: the leader after memberID is deleted; pick is the member
\* the range over the map yields first
LeaderAfterRemove(remaining, leader, memberID, pick) ==
    IF remaining = {} THEN ""
    ELSE IF leader = memberID THEN pick ELSE leader

\* RemoveMember: the group after the member is deleted from its map
WithoutMember(group, memberID, pick) ==
    LET remaining == DOMAIN group.Members \ {memberID}
    IN  [group EXCEPT !.Members = Del(@, memberID),
                      !.LeaderID = LeaderAfterRemove(remaining, @, memberID, pick),
                      !.State = IF remaining = {} THEN "empty" ELSE @]

\* the members the range in RemoveMember may yield first
Picks(cache, id, memberID) ==
    IF id \in DOMAIN cache /\ cache[id].LeaderID = memberID
          /\ DOMAIN cache[id].Members \ {memberID} # {}
    THEN DOMAIN cache[id].Members \ {memberID}
    ELSE {""}

\* FetchOffset: the cached offset, -1 when there is none
FetchOffset(cache, id, topic) ==
    IF id \notin DOMAIN cache THEN [offset |-> -1, ok |-> FALSE]
    ELSE IF topic \notin DOMAIN cache[id].Offsets THEN [offset |-> -1, ok |-> TRUE]
    ELSE [offset |-> cache[id].Offsets[topic], ok |-> TRUE]

\* the run of C10's calls on a group: nothing, joined by m, left by m
Void == [st |-> "void", m |-> ""]

notGroupStore == <<topicVars, synced, prod, security, listenVars, conn, pendingVars>>

\* SQLiteGroupStore.GetOrCreateGroup
StoreGetOrCreate(id, fail) ==
    IF id \in DOMAIN groups \/ fail \/ id \in DOMAIN db_groups
    THEN [db_groups |-> db_groups, groups |-> groups, ok |-> id \in DOMAIN groups]
    ELSE [db_groups |-> Put(db_groups, id, GroupRow(NewGroup)),
          groups |-> Put(groups, id, NewGroup), ok |-> TRUE]

\* Engine.GetOrCreateGroup, as handleOffsetCommit calls it
GetOrCreateGroup(id, fail) ==
    /\ LET out == StoreGetOrCreate(id, fail)
       IN  /\ db_groups' = out.db_groups
           /\ groups' = out.groups
    /\ UNCHANGED <<db_members, db_offsets, joining, acked, boots, script, coordVars, notGroupStore>>

\* Engine.JoinGroup: e.groupStore.GetOrCreateGroup(groupID)
JoinGetOrCreate(id, memberID, fail) ==
    /\ <<id, memberID>> \notin joining
    /\ LET out == StoreGetOrCreate(id, fail)
       IN  /\ db_groups' = out.db_groups
           /\ groups' = out.groups
           /\ joining' = IF out.ok THEN joining \cup {<<id, memberID>>} ELSE joining
    /\ UNCHANGED <<db_members, db_offsets, acked, boots, script, coordVars, notGroupStore>>

\* Engine.JoinGroup: e.groupStore.AddMember(groupID, memberID, ...)
JoinAddMember(id, memberID, fail, metaFail) ==
    /\ <<id, memberID>> \in joining
    /\ joining' = joining \ {<<id, memberID>>}
    /\ IF id \notin DOMAIN groups \/ fail
       THEN UNCHANGED <<db_groups, db_members, groups, script>>
       ELSE LET group == WithMember(groups[id], memberID, now)
            IN  /\ db_members' = ReplaceMember(db_members, id, memberID, now)
                /\ groups' = Put(groups, id, group)
                /\ db_groups' = UpdateGroupMeta(db_groups, id, group, metaFail)
                /\ script' = [script EXCEPT ![id] =
                                 IF DOMAIN groups[id].Members = {}
                                 THEN [st |-> "joined", m |-> memberID]
                                 ELSE Void]
    /\ UNCHANGED <<db_offsets, acked, boots, coordVars, notGroupStore>>

\* Engine.Heartbeat: SQLiteGroupStore.UpdateHeartbeat
Heartbeat(id, memberID, fail) ==
    /\ IF id \notin DOMAIN groups \/ memberID \notin DOMAIN groups[id].Members \/ fail
       THEN UNCHANGED <<db_members, groups>>
       ELSE /\ db_members' = {IF r.group_id = id /\ r.member_id = memberID
                             THEN [r EXCEPT !.last_heartbeat = now] ELSE r : r \in db_members}
            /\ groups' = [groups EXCEPT ![id].Members[memberID].LastHeartbeat = now]
    /\ UNCHANGED <<db_groups, db_offsets, joining, acked, boots, script, coordVars, notGroupStore>>

\* Engine.LeaveGroup: SQLiteGroupStore.RemoveMember
LeaveGroup(id, memberID, fail, metaFail, pick) ==
    /\ pick \in Picks(groups, id, memberID)
    /\ IF id \notin DOMAIN groups \/ fail
       THEN UNCHANGED <<db_groups, db_members, groups, script>>
       ELSE LET group == WithoutMember(groups[id], memberID, pick)
            IN  /\ db_members' = {r \in db_members :
                                     ~(r.group_id = id /\ r.member_id = memberID)}
                /\ groups' = Put(groups, id, group)
                /\ db_groups' = UpdateGroupMeta(db_groups, id, group, metaFail)
                /\ script' = [script EXCEPT ![id] =
                                 IF @.st = "joined" /\ @.m = memberID
                                 THEN [st |-> "left", m |-> memberID]
                                 ELSE @]
    /\ UNCHANGED <<db_offsets, joining, acked, boots, coordVars, notGroupStore>>

\* Engine.IncrementGeneration: SQLiteGroupStore.IncrementGeneration
IncrementGeneration(id, metaFail) ==
    /\ id \in DOMAIN groups
    /\ groups[id].Generation < MaxGeneration
    /\ LET group == [groups[id] EXCEPT !.Generation = @ + 1, !.State = "stable"]
       IN  /\ groups' = Put(groups, id, group)
           /\ db_groups' = UpdateGroupMeta(db_groups, id, group, metaFail)
           /\ observed' = Put(observed, id, group.Generation)
    /\ UNCHANGED <<db_members, db_offsets, joining, acked, boots, script,
                   sweeps, kafka, carried, notGroupStore>>

\* Engine.CommitOffset: SQLiteGroupStore.CommitOffset
CommitOffset(id, topic, offset, fail) ==
    /\ IF id \notin DOMAIN groups \/ fail
       THEN UNCHANGED <<db_offsets, groups, acked>>
       ELSE /\ db_offsets' = Put(db_offsets, <<id, topic>>, offset)
            /\ groups' = [groups EXCEPT ![id].Offsets = Put(@, topic, offset)]
            /\ acked' = Put(acked, <<id, topic>>, [offset |-> offset, boot |-> boots])
    /\ UNCHANGED <<db_groups, db_members, joining, boots, script, coordVars, notGroupStore>>

\* Engine.DeleteGroup: SQLiteGroupStore.DeleteGroup, one transaction
DeleteGroup(id, fail) ==
    /\ IF id \notin DOMAIN groups \/ fail
       THEN UNCHANGED <<db_groups, db_members, db_offsets, groups, acked, script>>
       ELSE /\ db_offsets' = [k \in {x \in DOMAIN db_offsets : x[1] # id} |-> db_offsets[k]]
            /\ db_members' = {r \in db_members : r.group_id # id}
            /\ db_groups' = Del(db_groups, id)
            /\ groups' = Del(groups, id)
            /\ acked' = [k \in {x \in DOMAIN acked : x[1] # id} |-> acked[k]]
            /\ script' = [script EXCEPT ![id] = Void]
    /\ UNCHANGED <<joining, boots, coordVars, notGroupStore>>

\* the process is stopped and started: NewSQLiteGroupStore loads the cache
Restart ==
    /\ boots < MaxRestarts
    /\ boots' = boots + 1
    /\ groups' = LoadGroups(db_groups, db_members, db_offsets)
    /\ joining' = {}
    /\ script' = [id \in GroupIds |-> Void]
    /\ UNCHANGED <<db_groups, db_members, db_offsets, acked, coordVars, notGroupStore>>

GroupsInit ==
    /\ db_groups = EmptyMap
    /\ db_members = {}
    /\ db_offsets = EmptyMap
    /\ groups = EmptyMap
    /\ joining = {}
    /\ acked = EmptyMap
    /\ boots = 0
    /\ script = [id \in GroupIds |-> Void]
    /\ CoordInit

InitGroup == TopicsInit /\ ProducersIdle /\ ConnsNone /\ GroupsInit /\ PendingNone /\ ServerNone

NextGroup ==
    \/ \E id \in Groups, fail \in BOOLEAN : GetOrCreateGroup(id, fail)
    \/ \E id \in Groups, m \in Members, fail \in BOOLEAN : JoinGetOrCreate(id, m, fail)
    \/ \E id \in Groups, m \in Members, fail, metaFail \in BOOLEAN :
          JoinAddMember(id, m, fail, metaFail)
    \/ \E id \in Groups, m \in Members, fail \in BOOLEAN : Heartbeat(id, m, fail)
    \/ \E id \in Groups, m \in Members, fail, metaFail \in BOOLEAN,
          pick \in Members \cup {""} : LeaveGroup(id, m, fail, metaFail, pick)
    \/ \E id \in Groups, metaFail \in BOOLEAN : IncrementGeneration(id, metaFail)
    \/ \E id \in Groups, t \in Topics, o \in 0..MaxOffset, fail \in BOOLEAN :
          CommitOffset(id, t, o, fail)
    \/ \E id \in Groups, fail \in BOOLEAN : DeleteGroup(id, fail)
    \/ Restart

SpecGroup == InitGroup /\ [][NextGroup]_vars

(***************************************************************************)
(* Member expiry.  ExpireMembers sweeps every cached group under s.mu; the *)
(* errors of its DELETE statements and of updateGroupMeta are dropped.     *)
(* `failed` is the set of member rows whose DELETE fails and `metaFails`   *)
(* the groups whose UPDATE fails; `pick` gives, per group, the member the  *)
(* range over the map yields first.                                        *)
(***************************************************************************)
\* the member of a group whose leader is gone that a range may yield first
LeaderPicks(group, remaining) ==
    IF remaining # {} /\ group.LeaderID \notin remaining THEN remaining ELSE {""}

\* a sweep that also takes the members whose heartbeat is exactly at the cutoff
ToRemoveAtCutoff(group, cutoff) ==
    {m \in DOMAIN group.Members : group.Members[m].LastHeartbeat <= cutoff}

\* ExpireMembers: the members whose LastHeartbeat is before the cutoff
ToRemove(group, cutoff) ==
    {m \in DOMAIN group.Members : group.Members[m].LastHeartbeat < cutoff}

\* ExpireMembers: a group after toRemove is deleted from its map
Swept(group, toRemove, pick) ==
    LET remaining == DOMAIN group.Members \ toRemove
    IN  IF toRemove = {} THEN group
        ELSE [group EXCEPT !.Members = [m \in remaining |-> @[m]],
                           !.State = IF remaining = {} THEN "empty" ELSE @,
                           !.LeaderID = IF remaining = {} THEN ""
                                        ELSE IF @ \in remaining THEN @ ELSE pick]

\* Engine.SyncGroup: SQLiteGroupStore.SetMemberAssignment
SyncGroup(id, memberID, assignment, fail) ==
    /\ IF id \notin DOMAIN groups \/ memberID \notin DOMAIN groups[id].Members \/ fail
       THEN UNCHANGED <<db_members, groups>>
       ELSE /\ db_members' = {IF r.group_id = id /\ r.member_id = memberID
                             THEN [r EXCEPT !.assignment = assignment] ELSE r : r \in db_members}
            /\ groups' = [groups EXCEPT ![id].Members[memberID].Assignment = assignment]
    /\ UNCHANGED <<db_groups, db_offsets, joining, acked, boots, script, coordVars, notGroupStore>>

\* SQLiteGroupStore.ExpireMembers(config.Groups.SessionTimeout)
ExpireMembers(timeout, pick, failed, metaFails) ==
    LET cutoff == now - timeout
        gone == {x \in (DOMAIN groups) \X Members : x[2] \in ToRemove(groups[x[1]], cutoff)}
        touched == {x[1] : x \in gone}
    IN  /\ sweeps.n < MaxSweeps
        /\ sweeps' = [n |-> sweeps.n + 1, expired |-> gone]
        /\ failed \subseteq gone
        /\ metaFails \subseteq touched
        /\ pick \in [DOMAIN groups -> Members \cup {""}]
        /\ \A id \in DOMAIN groups :
              pick[id] \in LeaderPicks(groups[id],
                                       DOMAIN groups[id].Members \ ToRemove(groups[id], cutoff))
        /\ groups' = [id \in DOMAIN groups |->
                         Swept(groups[id], ToRemove(groups[id], cutoff), pick[id])]
        /\ db_members' = {r \in db_members :
                             <<r.group_id, r.member_id>> \notin (gone \ failed)}
        /\ db_groups' = [id \in DOMAIN db_groups |->
                            IF id \in touched \ metaFails
                            THEN GroupRow(groups'[id]) ELSE db_groups[id]]
        /\ script' = [id \in DOMAIN script |-> IF id \in touched THEN Void ELSE script[id]]
        /\ UNCHANGED <<db_offsets, joining, acked, boots, observed, kafka, carried,
                       notGroupStore>>

\* one process run of the group store with two groups and no storage error:
\* one JoinGroup call at a time; generations, assignments (of m1) and offsets
\* (of t1) in g1 only
NextMembers ==
    \/ \E id \in GroupIds : GetOrCreateGroup(id, FALSE)
    \/ \E id \in GroupIds, m \in Members : joining = {} /\ JoinGetOrCreate(id, m, FALSE)
    \/ \E id \in GroupIds, m \in Members : JoinAddMember(id, m, FALSE, FALSE)
    \/ \E id \in GroupIds, m \in Members : Heartbeat(id, m, FALSE)
    \/ \E id \in GroupIds, m \in Members, pick \in Members \cup {""} :
          LeaveGroup(id, m, FALSE, FALSE, pick)
    \/ SyncGroup("g1", "m1", "A", FALSE)
    \/ IncrementGeneration("g1", FALSE)
    \/ CommitOffset("g1", "t1", 0, FALSE)
    \/ \E pick \in [DOMAIN groups -> Members \cup {""}] :
          ExpireMembers(SessionTimeout, pick, {}, {})
    \/ Tick

SpecMembers == InitGroup /\ [][NextMembers]_vars

(***************************************************************************)
(* The Kafka group requests (internal/server/kafka.go).  handleJoinGroup,  *)
(* handleSyncGroup, handleHeartbeat and handleLeaveGroup decode the        *)
(* request and encode an answer; none of them calls the engine.  kafka     *)
(* holds the number of group requests answered and the last answer;        *)
(* carried holds, per member id, the assignment bytes a SyncGroup request  *)
(* last carried for it.  Members come to exist through Engine.JoinGroup.   *)
(***************************************************************************)
\* the member ids a JoinGroup request may carry: "" asks for a new one
RequestMembers == Members \cup {""}

\* the assignment arrays a SyncGroup request may carry
Assignments == {EmptyMap} \cup {[x \in {m} |-> a] : m \in Members, a \in {"A", "B"}}

\* handleJoinGroup: fmt.Sprintf("%s-%d", groupID, time.Now().UnixNano())
NewMemberID(groupID, ts) == IF ts = 1 THEN "g1-1" ELSE IF ts = 2 THEN "g1-2" ELSE "g1-3"

\* handleJoinGroup: the member id of the answer
JoinMemberID(groupID, memberID, ts) ==
    IF memberID = "" THEN NewMemberID(groupID, ts) ELSE memberID

\* handleSyncGroup: the bytes of the pair of this request whose member id is
\* the caller's, empty bytes when the request has none
MemberAssignment(memberID, assignments) ==
    IF memberID \in DOMAIN assignments THEN assignments[memberID] ELSE ""

\* the answer a handler returns through wrapResponse
Answer(api, groupID, memberID, bytes) ==
    [n |-> kafka.n + 1, api |-> api, group |-> groupID, member |-> memberID, bytes |-> bytes]

notKafkaGroup ==
    <<topicVars, synced, prod, security, listenVars, conn, pendingVars, db_groups, db_members,
      db_offsets, groups, joining, acked, boots, script, observed, sweeps>>

\* KafkaServer.handleJoinGroup: generation 1, leader = member_id = this
\* member, a members array of this member with its first metadata
HandleJoinGroup(groupID, memberID, metadata) ==
    /\ kafka.n < MaxRequests
    /\ kafka' = Answer("JoinGroup", groupID, JoinMemberID(groupID, memberID, now), metadata)
    /\ UNCHANGED <<carried, notKafkaGroup>>

\* KafkaServer.handleSyncGroup
HandleSyncGroup(groupID, memberID, assignments) ==
    /\ kafka.n < MaxRequests
    /\ kafka' = Answer("SyncGroup", groupID, memberID,
                       MemberAssignment(memberID, assignments))
    /\ carried' = [m \in DOMAIN carried \cup DOMAIN assignments |->
                      IF m \in DOMAIN assignments THEN assignments[m] ELSE carried[m]]
    /\ UNCHANGED notKafkaGroup

\* KafkaServer.handleHeartbeat
HandleHeartbeat(groupID, memberID) ==
    /\ kafka.n < MaxRequests
    /\ kafka' = Answer("Heartbeat", groupID, memberID, "")
    /\ UNCHANGED <<carried, notKafkaGroup>>

\* KafkaServer.handleLeaveGroup
HandleLeaveGroup(groupID, memberID) ==
    /\ kafka.n < MaxRequests
    /\ kafka' = Answer("LeaveGroup", groupID, memberID, "")
    /\ UNCHANGED <<carried, notKafkaGroup>>

NextCoordinator ==
    \/ \E id \in Groups, m \in RequestMembers : HandleJoinGroup(id, m, "sub")
    \/ \E id \in Groups, m \in Members, a \in Assignments : HandleSyncGroup(id, m, a)
    \/ \E id \in Groups, m \in Members : HandleHeartbeat(id, m)
    \/ \E id \in Groups, m \in Members : HandleLeaveGroup(id, m)
    \/ \E id \in Groups, m \in Members : JoinGetOrCreate(id, m, FALSE)
    \/ \E id \in Groups, m \in Members : JoinAddMember(id, m, FALSE, FALSE)
    \/ Tick

SpecCoordinator == InitGroup /\ [][NextCoordinator]_vars

(***************************************************************************)
(* The pending-fetch queue (engine/pending.go) and the fetch scheduler     *)
(* (engine/scheduler.go).  Every method of PendingQueue runs under q.mu.   *)
(* A parked fetch has a number, and chans maps it to its ResponseChan:     *)
(* whether the channel is closed and the results sent on it.  Process      *)
(* sends at most one result on a channel, and the send is taken to return. *)
(***************************************************************************)
\* PendingFetch.MaxBytes of the parked fetches
MaxBytesValues == {1023, 1024}

\* integer division of Go: the quotient is truncated toward zero
GoDiv(a, b) == IF a >= 0 THEN a \div b ELSE -((-a) \div b)

\* make(chan FetchResult): open, nothing sent
NewChan == [closed |-> FALSE, buf |-> <<>>]

FetchResult(records, error) == [Records |-> records, Error |-> error]

\* Remove: the entries of every connection
RemainingNone(queue, c) == <<>>

\* Remove: the entries of the other connections, in their order
Remaining(queue, c) ==
    LET Other(p) == p.Conn # c
    IN  SelectSeq(queue, Other)

\* a Process that keeps an entry whose read fails
OutcomeKeepsErrors(p, ts, msgs, cache) ==
    IF ts > p.Deadline THEN [done |-> TRUE, result |-> FetchResult(<<>>, FALSE)]
    ELSE LET out == SQLiteRead(msgs, cache, p.Topic, p.Offset, GoDiv(p.MaxBytes, 1024))
         IN  IF out.ok /\ Len(out.records) > 0
             THEN [done |-> TRUE, result |-> FetchResult(out.records, FALSE)]
             ELSE [done |-> FALSE, result |-> FetchResult(<<>>, FALSE)]

\* Process: what one entry gets in a run at time ts; done = FALSE keeps it
Outcome(p, ts, msgs, cache) ==
    IF ts > p.Deadline THEN [done |-> TRUE, result |-> FetchResult(<<>>, FALSE)]
    ELSE LET out == SQLiteRead(msgs, cache, p.Topic, p.Offset, GoDiv(p.MaxBytes, 1024))
         IN  IF ~out.ok THEN [done |-> TRUE, result |-> FetchResult(<<>>, TRUE)]
             ELSE IF Len(out.records) > 0
                  THEN [done |-> TRUE, result |-> FetchResult(out.records, FALSE)]
                  ELSE [done |-> FALSE, result |-> FetchResult(<<>>, FALSE)]

notPending == <<topicVars, synced, prod, security, listenVars, conn, groupVars>>

\* Engine.ParkFetch: PendingQueue.Add of a fetch of connection c
ParkFetch(c, topic, offset, maxBytes, wait) ==
    /\ c \notin exited
    /\ Cardinality(DOMAIN chans) < MaxParked
    /\ LET id == Cardinality(DOMAIN chans) + 1
           req == [id |-> id, Conn |-> c, Topic |-> topic, Offset |-> offset,
                   MaxBytes |-> maxBytes, Deadline |-> now + wait]
       IN  /\ pending' = Append(pending, req)
           /\ chans' = Put(chans, id, NewChan)
    /\ UNCHANGED <<exited, ticks, sched, notPending>>

\* FetchScheduler.process on a tick of its ticker: PendingQueue.Process
Process ==
    /\ ticks' = (ticks + 1) % (MaxTicks + 1)
    /\ LET Kept(p) == ~Outcome(p, now, db_messages, topics).done
           done == {i \in 1..Len(pending) : ~Kept(pending[i])}
       IN  /\ pending' = SelectSeq(pending, Kept)
           /\ chans' = [id \in DOMAIN chans |->
                 IF \E i \in done : pending[i].id = id
                 THEN LET p == pending[CHOOSE i \in done : pending[i].id = id]
                      IN  [chans[id] EXCEPT
                              !.buf = Append(@, Outcome(p, now, db_messages, topics).result)]
                 ELSE chans[id]]
    /\ UNCHANGED <<exited, sched, notPending>>

\* handleConnection returns: its deferred function calls PendingQueue.Remove
ConnExit(c) ==
    /\ c \notin exited
    /\ exited' = exited \cup {c}
    /\ pending' = Remaining(pending, c)
    /\ chans' = [id \in DOMAIN chans |->
                    IF \E i \in 1..Len(pending) : pending[i].id = id /\ pending[i].Conn = c
                    THEN [chans[id] EXCEPT !.closed = TRUE] ELSE chans[id]]
    /\ UNCHANGED <<ticks, sched, notPending>>

\* fetches parked on one topic while it is created and appended to
NextPending ==
    \/ CreateTopic("t1", FALSE)
    \/ StoreAppendRaw("t1", 1, "none")
    \/ \E c \in Conns, o \in 0..MaxOffset, b \in MaxBytesValues, w \in 0..MaxWait :
          ParkFetch(c, "t1", o, b, w)
    \/ Process
    \/ \E c \in Conns : ConnExit(c)
    \/ Tick

SpecPending == Init /\ [][NextPending]_vars

(***************************************************************************)
(* The running engine.  Engine.Start starts the fetch scheduler and, with  *)
(* Retention.Enabled, the retention scheduler; each runs its task on every *)
(* tick of its ticker until Engine.Stop.  No MemberExpirationScheduler is  *)
(* constructed or started anywhere, and its expire() is empty, so no step  *)
(* of the running engine calls ExpireMembers.  Members join and send       *)
(* heartbeats through the engine.                                          *)
(***************************************************************************)
NextEngine ==
    \/ CreateTopic("t1", FALSE)
    \/ StoreAppendRaw("t1", 1, "none")
    \/ Process
    \/ DeleteBefore("t1")
    \/ \E id \in Groups, m \in Members : JoinGetOrCreate(id, m, FALSE)
    \/ \E id \in Groups, m \in Members : JoinAddMember(id, m, FALSE, FALSE)
    \/ \E id \in Groups, m \in Members : Heartbeat(id, m, FALSE)
    \/ Tick

\* time passes and the tickers Engine.Start has started keep firing
EngineFairness ==
    /\ WF_vars(Tick)
    /\ WF_vars(Process)
    /\ WF_vars(DeleteBefore("t1"))

SpecEngine == InitGroup /\ [][NextEngine]_vars /\ EngineFairness

(***************************************************************************)
(* KafkaServer's lifecycle (internal/server/kafka.go): the accept loop of  *)
(* ListenAndServe, one goroutine per admitted connection running           *)
(* handleConnection, and Close.  Each statement on shared state (the       *)
(* atomic counter, the sync.Map, the WaitGroup, stopChan, a socket) is one *)
(* step.  server.sock[c] is connection c as the network sees it,           *)
(* server.handler[c] where its goroutine is, server.accept where the       *)
(* accept loop is and the connection it holds, server.close where Close    *)
(* is.  A connection id is free for a new connection once the old one is   *)
(* gone.                                                                   *)
(***************************************************************************)
\* a limit that an admitted connection reaches only by exceeding it
LimitReachedOver(count) == count > MaxConnections

\* ListenAndServe: int(atomic.LoadInt32(&s.connCount)) >= MaxConnections
LimitReached(count) == count >= MaxConnections

\* the server once ListenAndServe has its listener
Listening ==
    [listener |-> "open", stopped |-> FALSE, connCount |-> 0, connections |-> {}, wg |-> 0,
     accept |-> [pc |-> "accept", conn |-> ""], close |-> "idle",
     sock |-> [c \in Conns |-> "idle"], handler |-> [c \in Conns |-> "none"]]

notServer ==
    <<topicVars, synced, prod, security, calls, autoCreate, conn, groupVars, pendingVars>>

\* a client connects: the connection waits in the listener's backlog
Dial(c) ==
    /\ server.listener = "open"
    /\ server.sock[c] = "idle"
    /\ server' = [server EXCEPT !.sock[c] = "dialed"]
    /\ UNCHANGED notServer

\* ln.Accept() returns a connection
Accept(c) ==
    /\ server.accept.pc = "accept"
    /\ server.listener = "open"
    /\ server.sock[c] = "dialed"
    /\ server' = [server EXCEPT !.sock[c] = "open", !.accept = [pc |-> "limit", conn |-> c]]
    /\ UNCHANGED notServer

\* ln.Accept() returns an error on the closed listener; stopChan is closed:
\* ListenAndServe returns
AcceptError ==
    /\ server.accept.pc = "accept"
    /\ server.listener = "closed"
    /\ server.stopped
    /\ server' = [server EXCEPT !.accept = [pc |-> "returned", conn |-> ""]]
    /\ UNCHANGED notServer

\* the connection limit: at the limit the connection is closed and the loop
\* continues
CheckLimit ==
    /\ server.accept.pc = "limit"
    /\ server' = IF LimitReached(server.connCount)
                 THEN [server EXCEPT !.sock[server.accept.conn] = "idle",
                                     !.accept = [pc |-> "accept", conn |-> ""]]
                 ELSE [server EXCEPT !.accept.pc = "count"]
    /\ UNCHANGED notServer

\* atomic.AddInt32(&s.connCount, 1)
CountConn ==
    /\ server.accept.pc = "count"
    /\ server' = [server EXCEPT !.connCount = @ + 1, !.accept.pc = "store"]
    /\ UNCHANGED notServer

\* s.connections.Store(conn, true)
StoreConn ==
    /\ server.accept.pc = "store"
    /\ server' = [server EXCEPT !.connections = @ \cup {server.accept.conn},
                                !.accept.pc = "add"]
    /\ UNCHANGED notServer

\* s.wg.Add(1)
WgAdd ==
    /\ server.accept.pc = "add"
    /\ server' = [server EXCEPT !.wg = @ + 1, !.accept.pc = "go"]
    /\ UNCHANGED notServer

\* go s.handleConnection(conn)
GoHandle ==
    /\ server.accept.pc = "go"
    /\ server' = [server EXCEPT !.handler[server.accept.conn] = "loop",
                                !.accept = [pc |-> "accept", conn |-> ""]]
    /\ UNCHANGED notServer

\* handleConnection returns from its loop (stopChan closed, the client or
\* Close closed the socket, a read deadline, a bad size, a failed write) and
\* its deferred function begins: conn.Close()
HandlerReturn(c) ==
    /\ server.handler[c] = "loop"
    /\ server' = [server EXCEPT !.handler[c] = "closed", !.sock[c] = "closed"]
    /\ UNCHANGED notServer

\* deferred: s.connections.Delete(conn)
CleanupDelete(c) ==
    /\ server.handler[c] = "closed"
    /\ server' = [server EXCEPT !.handler[c] = "deleted", !.connections = @ \ {c}]
    /\ UNCHANGED notServer

\* deferred: atomic.AddInt32(&s.connCount, -1)
CleanupCount(c) ==
    /\ server.handler[c] = "deleted"
    /\ server' = [server EXCEPT !.handler[c] = "counted", !.connCount = @ - 1]
    /\ UNCHANGED notServer

\* deferred: s.engine.GetPendingQueue().Remove(conn)
CleanupRemove(c) ==
    /\ server.handler[c] = "counted"
    /\ server' = [server EXCEPT !.handler[c] = "removed"]
    /\ pending' = Remaining(pending, c)
    /\ UNCHANGED <<topicVars, synced, prod, security, calls, autoCreate, conn, groupVars,
                   chans, exited, ticks, sched>>

\* deferred: s.wg.Done(); the goroutine is gone
CleanupDone(c) ==
    /\ server.handler[c] = "removed"
    /\ server' = [server EXCEPT !.handler[c] = "none", !.wg = @ - 1, !.sock[c] = "idle"]
    /\ UNCHANGED notServer

\* Close: close(s.stopChan)
CloseStop ==
    /\ server.close = "idle"
    /\ server' = [server EXCEPT !.stopped = TRUE, !.close = "listener"]
    /\ UNCHANGED notServer

\* Close: s.listener.Close(); what waits in the backlog is dropped
CloseListener ==
    /\ server.close = "listener"
    /\ server' = [server EXCEPT !.listener = "closed", !.close = "range",
                                !.sock = [c \in Conns |->
                                             IF server.sock[c] = "dialed" THEN "idle"
                                             ELSE server.sock[c]]]
    /\ UNCHANGED notServer

\* Close: s.connections.Range closes every connection it finds in the map
CloseRange ==
    /\ server.close = "range"
    /\ server' = [server EXCEPT !.close = "wait",
                                !.sock = [c \in Conns |->
                                             IF c \in server.connections THEN "closed"
                                             ELSE server.sock[c]]]
    /\ UNCHANGED notServer

\* Close: s.wg.Wait() returns when the counter is 0, and Close returns
CloseWait ==
    /\ server.close = "wait"
    /\ server.wg = 0
    /\ server' = [server EXCEPT !.close = "returned"]
    /\ UNCHANGED notServer

InitServer ==
    /\ TopicsInit /\ ProducersIdle /\ ConnsNone /\ GroupsNone /\ PendingNone
    /\ server = Listening
    /\ calls = EmptyMap
    /\ autoCreate = AutoCreate

NextServer ==
    \/ \E c \in Conns : Dial(c)
    \/ \E c \in Conns : Accept(c)
    \/ AcceptError
    \/ CheckLimit
    \/ CountConn
    \/ StoreConn
    \/ WgAdd
    \/ GoHandle
    \/ \E c \in Conns : HandlerReturn(c)
    \/ \E c \in Conns : CleanupDelete(c)
    \/ \E c \in Conns : CleanupCount(c)
    \/ \E c \in Conns : CleanupRemove(c)
    \/ \E c \in Conns : CleanupDone(c)
    \/ CloseStop
    \/ CloseListener
    \/ CloseRange
    \/ CloseWait

SpecServer == InitServer /\ [][NextServer]_vars

\* every goroutine that can take a step is scheduled
ServerFairness ==
    /\ WF_vars(AcceptError) /\ WF_vars(CheckLimit) /\ WF_vars(CountConn)
    /\ WF_vars(StoreConn) /\ WF_vars(WgAdd) /\ WF_vars(GoHandle)
    /\ \A c \in Conns :
          /\ WF_vars(server.stopped /\ HandlerReturn(c))
          /\ WF_vars(CleanupDelete(c)) /\ WF_vars(CleanupCount(c))
          /\ WF_vars(CleanupRemove(c)) /\ WF_vars(CleanupDone(c))
    /\ WF_vars(CloseListener) /\ WF_vars(CloseRange) /\ WF_vars(CloseWait)

SpecServerFair == SpecServer /\ ServerFairness

(***************************************************************************)
(* The Kafka topic requests (internal/server/kafka.go): Metadata,          *)
(* CreateTopics and ListOffsets, each for one topic name, beside Produce   *)
(* and Fetch.  A request runs on its connection's goroutine; calls[p] is   *)
(* where caller p's handler is and, once it is done, the entry it          *)
(* answered.  Every call into the topic store takes the store's lock       *)
(* once, and is one step.                                                  *)
(***************************************************************************)
\* protocol.OffsetLatest, protocol.OffsetEarliest, and some other timestamp
Timestamps == {-1, -2, 0}

NoCall ==
    [api |-> "none", topic |-> "", allow |-> FALSE, ts |-> 0, pc |-> "idle",
     error |-> "", offset |-> 0]

\* SELECT MIN(offset) FROM messages WHERE topic = ?
MinOffset(msgs, topic) ==
    LET offs == {r.offset : r \in RowsOf(msgs, topic)}
    IN  IF offs = {} THEN [valid |-> FALSE, n |-> 0]
        ELSE [valid |-> TRUE, n |-> CHOOSE o \in offs : \A q \in offs : o <= q]

\* SQLiteTopicStore.EarliestOffset of a topic in the cache: 0 when it has no row
EarliestOffset(msgs, topic) ==
    IF MinOffset(msgs, topic).valid THEN MinOffset(msgs, topic).n ELSE 0

\* an answer to timestamp -1 that is the latest offset itself
ListOffsetsEntryLast(cache, msgs, topic, ts) ==
    IF ts \in {-1, -2} /\ ~TopicExists(cache, topic)
    THEN [error |-> "UNKNOWN_TOPIC_OR_PARTITION", offset |-> 0]
    ELSE IF ts = -1 THEN [error |-> "NONE", offset |-> LatestOffset(cache, topic)]
    ELSE IF ts = -2 THEN [error |-> "NONE", offset |-> EarliestOffset(msgs, topic)]
    ELSE [error |-> "NONE", offset |-> 0]

\* handleListOffsets: the entry of one partition
ListOffsetsEntry(cache, msgs, topic, ts) ==
    IF ts \in {-1, -2} /\ ~TopicExists(cache, topic)
    THEN [error |-> "UNKNOWN_TOPIC_OR_PARTITION", offset |-> 0]
    ELSE IF ts = -1 THEN [error |-> "NONE", offset |-> LatestOffset(cache, topic) + 1]
    ELSE IF ts = -2 THEN [error |-> "NONE", offset |-> EarliestOffset(msgs, topic)]
    ELSE [error |-> "NONE", offset |-> 0]

\* the entry a handler answers when its topic does or does not exist
\* (handleMetadata), or when Engine.CreateTopic returned an error or none
\* (handleCreateTopics)
Entry(api, ok) ==
    IF ok THEN "NONE"
    ELSE IF api = "Metadata" THEN "UNKNOWN_TOPIC_OR_PARTITION"
    ELSE "TOPIC_ALREADY_EXISTS"

Finished(call, ok) == [call EXCEPT !.pc = "done", !.error = Entry(call.api, ok)]

notCalls == <<now, appends, synced, prod, security, server, autoCreate, conn, groupVars,
              pendingVars>>

\* a Metadata request naming one topic arrives
MetadataCall(p, topic, allow) ==
    /\ calls[p].pc \in {"idle", "done"}
    /\ calls' = [calls EXCEPT ![p] =
                    [NoCall EXCEPT !.api = "Metadata", !.topic = topic, !.allow = allow,
                                   !.pc = "exists"]]
    /\ UNCHANGED <<db_topics, db_messages, topics, hist, res, notCalls>>

\* handleMetadata: exists := s.engine.TopicExists(name), and the branch on
\* !exists && req.AllowAutoTopicCreation
MetadataExists(p) ==
    /\ calls[p].pc = "exists"
    /\ calls' = [calls EXCEPT ![p] =
                    IF TopicExists(topics, calls[p].topic) THEN Finished(@, TRUE)
                    ELSE IF calls[p].allow THEN [@ EXCEPT !.pc = "create"]
                    ELSE Finished(@, FALSE)]
    /\ UNCHANGED <<db_topics, db_messages, topics, hist, res, notCalls>>

\* a CreateTopics request naming one topic arrives: s.engine.CreateTopic
CreateTopicsCall(p, topic) ==
    /\ calls[p].pc \in {"idle", "done"}
    /\ calls' = [calls EXCEPT ![p] =
                    [NoCall EXCEPT !.api = "CreateTopics", !.topic = topic, !.pc = "create"]]
    /\ UNCHANGED <<db_topics, db_messages, topics, hist, res, notCalls>>

\* Engine.CreateTopic: if e.topicStore.TopicExists(name) return an error
EngineCreateCheck(p) ==
    /\ calls[p].pc = "create"
    /\ calls' = [calls EXCEPT ![p] =
                    IF TopicExists(topics, calls[p].topic) THEN Finished(@, FALSE)
                    ELSE [@ EXCEPT !.pc = "store"]]
    /\ UNCHANGED <<db_topics, db_messages, topics, hist, res, notCalls>>

\* Engine.CreateTopic: return e.topicStore.CreateTopic(name), and the
\* handler's entry
EngineCreateStore(p, fail) ==
    /\ calls[p].pc = "store"
    /\ LET out == SQLiteCreateTopic(db_topics, topics, calls[p].topic, fail)
       IN  /\ db_topics' = out.db_topics
           /\ topics' = out.topics
           /\ hist' = IF out.ok THEN [hist EXCEPT ![calls[p].topic] = <<>>] ELSE hist
           /\ calls' = [calls EXCEPT ![p] = Finished(@, out.ok)]
    /\ res' = NoResult
    /\ UNCHANGED <<db_messages, notCalls>>

\* a ListOffsets request for one partition: handleListOffsets
ListOffsets(p, topic, ts) ==
    /\ calls[p].pc \in {"idle", "done"}
    /\ LET e == ListOffsetsEntry(topics, db_messages, topic, ts)
       IN  calls' = [calls EXCEPT ![p] =
                        [NoCall EXCEPT !.api = "ListOffsets", !.topic = topic, !.ts = ts,
                                       !.pc = "done", !.error = e.error,
                                       !.offset = e.offset]]
    /\ UNCHANGED <<db_topics, db_messages, topics, hist, res, notCalls>>

InitRequests ==
    /\ TopicsInit /\ ProducersInit /\ ConnsNone /\ GroupsNone /\ PendingNone
    /\ server = EmptyMap
    /\ calls = [p \in Producers |-> NoCall]
    /\ autoCreate \in BOOLEAN

\* two callers, one topic, no storage error
NextRequests ==
    \/ \E p \in Producers, allow \in BOOLEAN : MetadataCall(p, "t1", allow)
    \/ \E p \in Producers : MetadataExists(p)
    \/ \E p \in Producers : CreateTopicsCall(p, "t1")
    \/ \E p \in Producers : EngineCreateCheck(p)
    \/ \E p \in Producers : EngineCreateStore(p, FALSE)
    \/ \E p \in Producers, ts \in Timestamps : ListOffsets(p, "t1", ts)
    \/ \E p \in Producers : ProduceCall(p, "t1", TRUE)
    \/ \E p \in Producers : EnsureTopicCheck(p)
    \/ \E p \in Producers : EnsureTopicCreate(p, FALSE)
    \/ \E p \in Producers : ProduceAppend(p, "none")
    \/ StoreRead("t1", 0, 1)

SpecRequests == InitRequests /\ [][NextRequests]_vars

(***************************************************************************)
(* Retention (engine.go, RetentionScheduler): each run of cleanup takes    *)
(* cutoff := time.Now().Add(-MaxAge) once and calls DeleteBefore(topic,    *)
(* cutoff) for every topic of ListTopics.  Rows appended while it runs     *)
(* carry a timestamp that is not before the cutoff, so the run is taken    *)
(* as one step.                                                            *)
(***************************************************************************)
\* RetentionScheduler.cleanup
Cleanup ==
    /\ LET cutoff == now - MaxAge
           gone == UNION {DeleteBeforeRows(db_messages, t, cutoff) : t \in DOMAIN topics}
       IN  db_messages' = db_messages \ gone
    /\ res' = NoResult
    /\ UNCHANGED <<now, db_topics, topics, appends, hist, notTopicStore>>

InitSweep ==
    /\ TopicsInit /\ ProducersIdle /\ ConnsNone /\ GroupsInit /\ PendingNone
    /\ server = EmptyMap
    /\ calls = [p \in Producers |-> NoCall]
    /\ autoCreate = AutoCreate

\* appends, retention runs, committed offsets and ListOffsets requests
NextSweep ==
    \/ \E t \in Topics : CreateTopic(t, FALSE)
    \/ \E t \in Topics, n \in 1..MaxRecs : StoreAppendRaw(t, n, "none")
    \/ Cleanup
    \/ Tick
    \/ GetOrCreateGroup("g1", FALSE)
    \/ \E o \in 0..MaxOffset : CommitOffset("g1", "t1", o, FALSE)
    \/ \E ts \in Timestamps : ListOffsets("p1", "t1", ts)

SpecSweep == InitSweep /\ [][NextSweep]_vars

(***************************************************************************)
(* A topic that is created, appended to, read, deleted and created again.  *)
(* Every append here is to the existing topic and meets no storage error,  *)
(* so the appends 1..appends all returned success.                         *)
(***************************************************************************)
NextDelete ==
    \/ CreateTopic("t1", FALSE)
    \/ \E n \in 1..MaxRecs : TopicExists(topics, "t1") /\ StoreAppend("t1", n, "none")
    \/ \E n \in 1..MaxRecs : TopicExists(topics, "t1") /\ StoreAppendRaw("t1", n, "none")
    \/ \E fail \in BOOLEAN : DeleteTopic("t1", fail)
    \/ \E from \in 0..MaxFrom, k \in 0..MaxLimit : StoreRead("t1", from, k)

SpecDelete == Init /\ [][NextDelete]_vars

(***************************************************************************)
(* The same run on the Badger backend.  TopicStore.DeleteTopic deletes, in *)
(* one transaction, every key with the prefix topics:<t>: (the meta key    *)
(* and the message keys), then the cache entry.                            *)
(***************************************************************************)
\* TopicStore.DeleteTopic
BadgerDeleteTopic(name, fail) ==
    /\ IF name \notin DOMAIN topics \/ fail
       THEN UNCHANGED <<db_topics, db_messages, topics, hist>>
       ELSE /\ db_messages' = DeleteTopicRows(db_messages, name)
            /\ db_topics' = Del(db_topics, name)
            /\ topics' = Del(topics, name)
            /\ hist' = [hist EXCEPT ![name] = <<>>]
    /\ res' = NoResult
    /\ UNCHANGED <<now, appends, notTopicStore>>

NextBadgerDelete ==
    \/ BadgerCreateTopic("t1", FALSE)
    \/ \E n \in 1..MaxRecs : TopicExists(topics, "t1") /\ BadgerStoreAppend("t1", n, "none")
    \/ \E n \in 1..MaxRecs : TopicExists(topics, "t1") /\ BadgerStoreAppendRaw("t1", n, "none")
    \/ \E fail \in BOOLEAN : BadgerDeleteTopic("t1", fail)
    \/ Tick

SpecBadgerDelete == Init /\ [][NextBadgerDelete]_vars

(***************************************************************************)
(* The variable-length integers of the wire codec (protocol/codec.go).     *)
(* A 64-bit word is the set of the positions of its one bits, bit 63 being *)
(* the sign of an int64; a byte is such a set within 0..7.  The shifts     *)
(* drop the bits that leave the word, as Go's do.  calls holds the codec's *)
(* input, the encoder's buffer and the decoder's result.                   *)
(***************************************************************************)
WordBits == 64

Bits == 0..(WordBits - 1)

Shl(v, k) == {i + k : i \in v} \cap Bits

\* v >> k of a uint64
Lsr(v, k) == {i - k : i \in v} \cap Bits

\* v >> k of an int64: the sign bit fills the vacated positions
Asr(v, k) ==
    Lsr(v, k) \cup (IF (WordBits - 1) \in v THEN {i \in Bits : i >= WordBits - k} ELSE {})

Xor(a, b) == (a \ b) \cup (b \ a)

\* -(v & 1) of an int64: all ones when bit 0 is set
NegLowBit(v) == IF 0 \in v THEN Bits ELSE {}

\* byte(v): the low eight bits
Byte(v) == v \cap 0..7

\* Encoder.WriteUVarInt: the bytes appended for a uint64
RECURSIVE WriteUVarInt(_)
WriteUVarInt(v) ==
    IF \E i \in v : i >= 7
    THEN <<Byte(v) \cup {7}>> \o WriteUVarInt(Lsr(v, 7))
    ELSE <<Byte(v)>>

\* Encoder.WriteVarInt: zigzag, then WriteUVarInt
WriteVarInt(v) == WriteUVarInt(Xor(Shl(v, 1), Asr(v, 63)))

\* the loop of Decoder.ReadVarInt from byte pos on; err when the bytes end
RECURSIVE ReadLoop(_, _, _, _)
ReadLoop(bytes, pos, value, shift) ==
    IF pos > Len(bytes) THEN [err |-> TRUE, value |-> {}, consumed |-> pos - 1]
    ELSE LET b == bytes[pos]
             v == value \cup Shl(b \ {7}, shift)
         IN  IF 7 \notin b THEN [err |-> FALSE, value |-> v, consumed |-> pos]
             ELSE ReadLoop(bytes, pos + 1, v, shift + 7)

\* Decoder.ReadVarInt: the loop, then the zigzag decoding
ReadVarInt(bytes) ==
    LET r == ReadLoop(bytes, 1, {}, 0)
    IN  IF r.err THEN [err |-> TRUE, value |-> {}, consumed |-> r.consumed]
        ELSE [err |-> FALSE, value |-> Xor(Asr(r.value, 1), NegLowBit(r.value)),
              consumed |-> r.consumed]

\* the int64 inputs: one bit set, the low k bits set, the high bits from k
\* on set, one bit clear (2^k, 2^k - 1, -2^k, -2^k - 1 for k < 63), with
\* 0, -1, the least and the greatest int64 among them
Int64Inputs ==
    {{k} : k \in Bits} \cup {{i \in Bits : i < k} : k \in Bits}
    \cup {{i \in Bits : i >= k} : k \in Bits}
    \cup {Bits \ {k} : k \in Bits}

notCodec == <<topicVars, synced, prod, security, server, autoCreate, conn, groupVars,
               pendingVars>>

\* an encoder writes the input
Encode ==
    /\ calls.pc = "Input"
    /\ calls' = [pc |-> "Written", n |-> calls.n, bytes |-> WriteVarInt(calls.n)]
    /\ UNCHANGED notCodec

\* a decoder over the written bytes reads one varint
Decode ==
    /\ calls.pc = "Written"
    /\ LET r == ReadVarInt(calls.bytes)
       IN  calls' = [pc |-> "Read", n |-> calls.n, bytes |-> calls.bytes,
                     err |-> r.err, value |-> r.value, consumed |-> r.consumed]
    /\ UNCHANGED notCodec

InitVarInt ==
    /\ TopicsInit /\ ProducersIdle /\ ConnsNone /\ GroupsNone /\ PendingNone
    /\ server = EmptyMap
    /\ autoCreate = AutoCreate
    /\ calls \in {[pc |-> "Input", n |-> n] : n \in Int64Inputs}

NextVarInt == Encode \/ Decode

SpecVarInt == InitVarInt /\ [][NextVarInt]_vars

(***************************************************************************)
(* The topic store called with every record count its signature admits:    *)
(* Append with an empty record list, AppendRaw with recordCount 0.         *)
(***************************************************************************)
NextCounts ==
    \/ \E t \in Topics : CreateTopic(t, FALSE)
    \/ \E t \in Topics, n \in 0..MaxRecs, fail \in Failures : StoreAppend(t, n, fail)
    \/ \E t \in Topics, n \in 0..MaxRecs, fail \in Failures : StoreAppendRaw(t, n, fail)
    \/ \E t \in Topics : DeleteBefore(t)
    \/ Tick

SpecCounts == Init /\ [][NextCounts]_vars

(***************************************************************************)
(* The Fetch handler (KafkaServer.handleFetch).  For a partition entry it   *)
(* calls TopicExists, Engine.Fetch, Engine.LatestOffset and                *)
(* Engine.EarliestOffset one after the other, each under the store's lock  *)
(* on its own, and drops the errors of the last three: a failed call       *)
(* leaves no records, or the offset 0.  calls[p] is the handler of caller  *)
(* p between these calls.                                                  *)
(***************************************************************************)
\* the maxRecords handleFetch passes to Engine.Fetch
FetchMaxRecords == 100

\* a handler that has answered, or one at statement pc of its entry
FetchState(topic, offset, pc, error, records, latest, earliest) ==
    [api |-> "Fetch", topic |-> topic, allow |-> FALSE, ts |-> 0, pc |-> pc,
     error |-> error, offset |-> offset, records |-> records,
     hw |-> latest + 1, lso |-> latest + 1, logStart |-> earliest]

\* handleFetch: if !s.engine.TopicExists(t.Name)
FetchCheck(p, topic, offset) ==
    /\ calls[p].pc \in {"idle", "done"}
    /\ calls' = [calls EXCEPT ![p] =
                    IF TopicExists(topics, topic)
                    THEN FetchState(topic, offset, "Fetch", "", <<>>, 0, 0)
                    ELSE FetchState(topic, offset, "done", "UNKNOWN_TOPIC_OR_PARTITION",
                                    <<>>, -1, 0)]
    /\ UNCHANGED <<db_topics, db_messages, topics, hist, res, notCalls>>

\* records, _ := s.engine.Fetch(t.Name, p.FetchOffset, 100)
FetchRead(p) ==
    /\ calls[p].pc = "Fetch"
    /\ LET c == calls[p]
           out == SQLiteRead(db_messages, topics, c.topic, c.offset, FetchMaxRecords)
       IN  calls' = [calls EXCEPT ![p] =
                        FetchState(c.topic, c.offset, "LatestOffset", "", out.records, 0, 0)]
    /\ UNCHANGED <<db_topics, db_messages, topics, hist, res, notCalls>>

\* latest, _ := s.engine.LatestOffset(t.Name)
FetchLatest(p) ==
    /\ calls[p].pc = "LatestOffset"
    /\ LET c == calls[p]
           latest == IF TopicExists(topics, c.topic) THEN LatestOffset(topics, c.topic) ELSE 0
       IN  calls' = [calls EXCEPT ![p] =
                        FetchState(c.topic, c.offset, "EarliestOffset", "", c.records,
                                   latest, 0)]
    /\ UNCHANGED <<db_topics, db_messages, topics, hist, res, notCalls>>

\* earliest, _ := s.engine.EarliestOffset(t.Name), and the entry is filled in
FetchEarliest(p) ==
    /\ calls[p].pc = "EarliestOffset"
    /\ LET c == calls[p]
           earliest == IF TopicExists(topics, c.topic)
                       THEN EarliestOffset(db_messages, c.topic) ELSE 0
       IN  calls' = [calls EXCEPT ![p] =
                        FetchState(c.topic, c.offset, "done", "NONE", c.records,
                                   c.hw - 1, earliest)]
    /\ UNCHANGED <<db_topics, db_messages, topics, hist, res, notCalls>>

\* fetches of one topic beside produces, retention runs, deletion and
\* re-creation of the topic
NextFetch ==
    \/ CreateTopic("t1", FALSE)
    \/ DeleteTopic("t1", FALSE)
    \/ StoreAppendRaw("t1", 1, "none")
    \/ Cleanup
    \/ Tick
    \/ \E p \in Producers, o \in 0..MaxOffset : FetchCheck(p, "t1", o)
    \/ \E p \in Producers : FetchRead(p)
    \/ \E p \in Producers : FetchLatest(p)
    \/ \E p \in Producers : FetchEarliest(p)

InitFetch ==
    /\ TopicsInit /\ ProducersIdle /\ ConnsNone /\ GroupsNone /\ PendingNone
    /\ server = EmptyMap
    /\ calls = [p \in Producers |-> NoCall]
    /\ autoCreate = AutoCreate

SpecFetch == InitFetch /\ [][NextFetch]_vars

\* the same without deletion of the topic
NextFetchKept ==
    \/ CreateTopic("t1", FALSE)
    \/ StoreAppendRaw("t1", 1, "none")
    \/ Cleanup
    \/ Tick
    \/ \E p \in Producers, o \in 0..MaxOffset : FetchCheck(p, "t1", o)
    \/ \E p \in Producers : FetchRead(p)
    \/ \E p \in Producers : FetchLatest(p)
    \/ \E p \in Producers : FetchEarliest(p)

SpecFetchKept == InitFetch /\ [][NextFetchKept]_vars

(***************************************************************************)
(* The OffsetCommit and OffsetFetch handlers (kafka.go), for a request     *)
(* with one topic and one partition entry.  handleOffsetCommit calls       *)
(* Engine.GetOrCreateGroup, dropping its result, and then                  *)
(* Engine.CommitOffset for an entry of partition 0; handleOffsetFetch      *)
(* calls Engine.FetchOffset for an entry of partition 0.  calls[p] is the  *)
(* handler of caller p and, once it is done, its entry.                    *)
(***************************************************************************)
GroupCall(api, group, topic, index, offset, pc, error) ==
    [api |-> api, group |-> group, topic |-> topic, index |-> index, allow |-> FALSE,
     ts |-> 0, pc |-> pc, error |-> error, offset |-> offset]

\* handleOffsetCommit: if partIndex == 0
CommitsPartition(index) == index = 0

\* handleOffsetCommit, up to s.engine.GetOrCreateGroup(groupID)
OffsetCommitCall(p, id, topic, index, offset, fail) ==
    /\ calls[p].pc \in {"idle", "done"}
    /\ LET out == StoreGetOrCreate(id, fail)
       IN  /\ db_groups' = out.db_groups
           /\ groups' = out.groups
    /\ calls' = [calls EXCEPT ![p] =
                    GroupCall("OffsetCommit", id, topic, index, offset, "Commit", "")]
    /\ UNCHANGED <<db_members, db_offsets, joining, acked, boots, script, coordVars,
                   topicVars, synced, prod, security, server, autoCreate, conn, pendingVars>>

\* handleOffsetCommit: the partition entry
OffsetCommitEntry(p, fail) ==
    /\ calls[p].pc = "Commit"
    /\ LET c == calls[p]
           commits == CommitsPartition(c.index)
           failed == commits /\ (c.group \notin DOMAIN groups \/ fail)
       IN  /\ IF commits /\ ~failed
              THEN /\ db_offsets' = Put(db_offsets, <<c.group, c.topic>>, c.offset)
                   /\ groups' = [groups EXCEPT ![c.group].Offsets = Put(@, c.topic, c.offset)]
                   /\ acked' = Put(acked, <<c.group, c.topic>>,
                                   [offset |-> c.offset, boot |-> boots])
              ELSE UNCHANGED <<db_offsets, groups, acked>>
           /\ calls' = [calls EXCEPT ![p] =
                           GroupCall("OffsetCommit", c.group, c.topic, c.index, c.offset,
                                     "done",
                                     IF failed THEN "COORDINATOR_NOT_AVAILABLE" ELSE "NONE")]
    /\ UNCHANGED <<db_groups, db_members, joining, boots, script, coordVars,
                   topicVars, synced, prod, security, server, autoCreate, conn, pendingVars>>

\* handleOffsetFetch: the partition entry
OffsetFetchRequest(p, id, topic, index) ==
    /\ calls[p].pc \in {"idle", "done"}
    /\ LET out == FetchOffset(groups, id, topic)
           committed == IF index = 0 /\ out.ok /\ out.offset >= 0 THEN out.offset ELSE -1
       IN  calls' = [calls EXCEPT ![p] =
                        GroupCall("OffsetFetch", id, topic, index, committed, "done", "NONE")]
    /\ UNCHANGED <<groupVars, topicVars, synced, prod, security, server, autoCreate, conn,
                   pendingVars>>

\* one connection commits and another fetches the committed offsets
NextOffsets ==
    \/ \E id \in Groups, t \in Topics, i \in PartitionIndexes, o \in 0..MaxOffset,
          fail \in BOOLEAN : OffsetCommitCall("p1", id, t, i, o, fail)
    \/ \E fail \in BOOLEAN : OffsetCommitEntry("p1", fail)
    \/ \E id \in Groups, t \in Topics, i \in PartitionIndexes :
          OffsetFetchRequest("p2", id, t, i)

SpecOffsets == InitSweep /\ [][NextOffsets]_vars

(***************************************************************************)
(* PendingQueue.Process statement by statement.  It holds q.mu from its    *)
(* first statement to its return and sends on p.ResponseChan with a plain  *)
(* channel send, which returns only when a receiver takes the value or the *)
(* channel's buffer has room.  Add and Remove wait for q.mu.  The channel  *)
(* of a PendingFetch is made by whoever parks it, so its capacity is an    *)
(* input; the one receiver in the repository is handleAsyncFetch, which    *)
(* waits in a select for the result or for the server's stopChan.  A       *)
(* channel here also carries its capacity and the state of its receiver,   *)
(* and buf is every result sent on it.                                     *)
(***************************************************************************)
\* cap(ResponseChan): unbuffered, or room for the one result
ChanCapacities == {0, 1}

\* make(chan FetchResult, capacity), and handleAsyncFetch waiting on it
MakeChan(capacity) ==
    [closed |-> FALSE, buf |-> <<>>, cap |-> capacity, recv |-> "select"]

\* p.ResponseChan <- result can return: a receiver waits, or the buffer has room
CanSend(ch) ==
    \/ ch.recv = "select"
    \/ Len(ch.buf) - (IF ch.recv = "got" THEN 1 ELSE 0) < ch.cap

\* the channel after the send: a waiting receiver takes the result
AfterSend(ch, result) ==
    [ch EXCEPT !.buf = Append(@, result),
               !.recv = IF @ = "select" THEN "got" ELSE @]

\* PendingQueue.Add, once q.mu is free
ParkFetchOn(c, topic, offset, maxBytes, wait, capacity) ==
    /\ sched.mu = "free"
    /\ c \notin exited
    /\ Cardinality(DOMAIN chans) < MaxParked
    /\ LET id == Cardinality(DOMAIN chans) + 1
           req == [id |-> id, Conn |-> c, Topic |-> topic, Offset |-> offset,
                   MaxBytes |-> maxBytes, Deadline |-> now + wait]
       IN  /\ pending' = Append(pending, req)
           /\ chans' = Put(chans, id, MakeChan(capacity))
    /\ UNCHANGED <<exited, ticks, sched, notPending>>

\* handleAsyncFetch: case <-s.stopChan: return
ReceiverLeaves(id) ==
    /\ id \in DOMAIN chans
    /\ chans[id].recv = "select"
    /\ chans' = [chans EXCEPT ![id].recv = "returned"]
    /\ UNCHANGED <<pending, exited, ticks, sched, notPending>>

\* Process: q.mu.Lock(); now := time.Now()
ProcessBegin ==
    /\ sched.mu = "free"
    /\ ticks' = (ticks + 1) % (MaxTicks + 1)
    /\ sched' = [mu |-> "tick", todo |-> pending, still |-> <<>>, at |-> now]
    /\ UNCHANGED <<pending, chans, exited, notPending>>

\* Process: one turn of the loop over q.pending
ProcessVisit ==
    /\ sched.mu = "tick"
    /\ sched.todo # <<>>
    /\ LET p == Head(sched.todo)
           out == Outcome(p, sched.at, db_messages, topics)
       IN  IF out.done
           THEN /\ CanSend(chans[p.id])
                /\ chans' = [chans EXCEPT ![p.id] = AfterSend(@, out.result)]
                /\ sched' = [sched EXCEPT !.todo = Tail(@)]
           ELSE /\ chans' = chans
                /\ sched' = [sched EXCEPT !.todo = Tail(@), !.still = Append(@, p)]
    /\ UNCHANGED <<pending, exited, ticks, notPending>>

\* Process: q.pending = stillPending; return, which unlocks q.mu
ProcessEnd ==
    /\ sched.mu = "tick"
    /\ sched.todo = <<>>
    /\ pending' = sched.still
    /\ sched' = SchedIdle
    /\ UNCHANGED <<chans, exited, ticks, notPending>>

\* a Remove that does not take q.mu
RemoveConnUnlocked(c) == ConnExit(c)

\* PendingQueue.Remove(conn), once q.mu is free
RemoveConn(c) == sched.mu = "free" /\ ConnExit(c)

\* fetches parked on channels of either capacity on a topic without
\* records, ticks of the scheduler, receivers that leave and connections
\* that close
NextTick ==
    \/ CreateTopic("t1", FALSE)
    \/ \E c \in Conns, capacity \in ChanCapacities :
          ParkFetchOn(c, "t1", 0, 1024, MaxWait, capacity)
    \/ \E id \in 1..MaxParked : ReceiverLeaves(id)
    \/ ProcessBegin
    \/ ProcessVisit
    \/ ProcessEnd
    \/ \E c \in Conns : RemoveConn(c)
    \/ Tick

SpecTick == Init /\ [][NextTick]_vars

\* the scheduler's goroutine keeps running
SpecTickFair == SpecTick /\ WF_vars(ProcessVisit) /\ WF_vars(ProcessEnd)

(***************************************************************************)
(* The append log of a topic.  hist[t] lists the appends to topic t that   *)
(* returned success since t was created, in the order they held s.mu.      *)
(***************************************************************************)
\* the rows in table messages that append a to topic t wrote
RowsOfAppend(t, a) == {r \in RowsOf(db_messages, t) : r.value[1] = a.id}

\* C1: the successful appends to a topic, in the order they were serialised,
\* return base offsets 0, then each the previous base plus the previous
\* record count; no two of them return the same base.
C1_BaseOffsetsChain ==
    \A t \in Topics :
        LET h == hist[t]
        IN  /\ (Len(h) > 0 => h[1].base = 0)
            /\ \A i \in 1..(Len(h) - 1) : h[i + 1].base = h[i].base + h[i].n
            /\ \A i, j \in 1..Len(h) : i # j => h[i].base # h[j].base

\* three appends to one topic succeeded, a batch and a record list among them
C1_Witness ==
    \E t \in Topics :
        /\ Len(hist[t]) >= 3
        /\ \E i, j \in 1..Len(hist[t]) :
              hist[t][i].raw /\ ~hist[t][j].raw /\ hist[t][i].n = 2

\* the records a Read returns for the rows append a wrote
RecordsOfAppend(a) ==
    IF a.raw
    THEN << [Offset |-> a.base, LastOffset |-> a.base + a.n - 1, Value |-> <<a.id, 0>>] >>
    ELSE [i \in 1..a.n |->
             [Offset |-> a.base + i - 1, LastOffset |-> a.base + i - 1, Value |-> <<a.id, i>>]]

\* C2: once Append or AppendRaw on the SQLite store has returned success,
\* after any crash and restart the topic has the same latest offset and a
\* read at the returned base offset returns the appended rows.
C2_AckedAppendsSurviveCrash ==
    \A t \in Topics :
        \A i \in 1..Len(hist[t]) :
            LET a == hist[t][i]
                want == RecordsOfAppend(a)
                out == SQLiteRead(db_messages, topics, t, a.base, Len(want))
            IN  /\ t \in DOMAIN topics
                /\ (i = Len(hist[t]) => LatestOffset(topics, t) = a.base + a.n - 1)
                /\ out.ok
                /\ Len(out.records) = Len(want)
                /\ \A j \in 1..Len(want) :
                      /\ out.records[j].Offset = want[j].Offset
                      /\ out.records[j].LastOffset = want[j].LastOffset
                      /\ out.records[j].Value = want[j].Value

\* a step is an append call that returned an error
AppendFailed == appends' = appends + 1 /\ hist' = hist

\* C3: an Append or AppendRaw that fails at any step (insert, update,
\* commit) returns the error, leaves no row behind, leaves LatestOffset of
\* every topic as it was, and so leaves the base offset of the next append.
C3_FailedAppendLeavesNoTrace ==
    [][AppendFailed =>
          /\ db_messages' = db_messages
          /\ db_topics' = db_topics
          /\ \A t \in DOMAIN topics :
                /\ t \in DOMAIN topics'
                /\ LatestOffset(topics', t) = LatestOffset(topics, t)
                /\ BaseOffset(topics'[t]) = BaseOffset(topics[t])]_vars

\* where the request with correlation id corr stands in what connection c read
ReadAt(c, corr) == CHOOSE k \in 1..Len(conn[c].readLog) : conn[c].readLog[k].corr = corr

\* C6: on every connection the responses are written in the order in which
\* their requests were read.
C6_ResponsesInReadOrder ==
    \A c \in Conns :
        LET o == conn[c].out
            l == conn[c].readLog
        IN  /\ \A i \in 1..Len(o) : \E k \in 1..Len(l) : l[k].corr = o[i].corr
            /\ \A i, j \in 1..Len(o) : i < j => ReadAt(c, o[i].corr) < ReadAt(c, o[j].corr)

\* a connection has answered two requests and read, between them, one that
\* got no answer
C6_Witness ==
    \E c \in Conns :
        /\ Len(conn[c].out) = 2
        /\ Len(conn[c].readLog) = 3
        /\ conn[c].readLog[2].api = "Malformed"
        /\ conn[c].out[2].corr = 3

\* connection c handles its current request in this step
Handles(c) == conn[c].pc = "handle" /\ conn'[c].pc # "handle"

C10_JoinLeaveEmptiesGroup ==
    [][\A id \in Groups :
          (script[id].st = "joined" /\ script'[id].st = "left") =>
              /\ id \in DOMAIN groups'
              /\ DOMAIN groups'[id].Members = {}
              /\ groups'[id].State = "empty"
              /\ groups'[id].LeaderID = ""]_vars

\* a run has ended on a group that was "stable" when its member left
C10_Witness ==
    \E id \in Groups :
        /\ script[id].st = "left"
        /\ id \in DOMAIN groups
        /\ groups[id].Generation = 1
        /\ groups[id].State = "empty"

\* C8: with auto-create enabled and no storage error every produce call
\* succeeds and returns a base offset, also when several producers produce
\* concurrently to a topic that does not exist yet.
C8_EveryProduceSucceeds ==
    \A p \in Producers :
        prod[p].pc = "done" => (prod[p].ok /\ prod[p].base >= 0)

\* C4: after a successful append of n records with base b, LatestOffset is
\* b + n - 1 (until the next append), and for every offset o in b..b+n-1 a
\* read from o returns as its first row a row whose [offset, last_offset]
\* contains o, as long as retention has not removed the append's rows.
C4_AppendedOffsetsReadable ==
    \A t \in DOMAIN topics :
        \A i \in 1..Len(hist[t]) :
            LET a == hist[t][i]
            IN  /\ (i = Len(hist[t]) => LatestOffset(topics, t) = a.base + a.n - 1)
                /\ RowsOfAppend(t, a) # {} =>
                      \A o \in a.base..(a.base + a.n - 1) :
                          LET out == SQLiteRead(db_messages, topics, t, o, 1)
                          IN  /\ out.ok
                              /\ Len(out.records) = 1
                              /\ out.records[1].Offset <= o
                              /\ o <= out.records[1].LastOffset

\* a two-record batch followed by another append, its rows still stored
\* while retention has removed an earlier append's rows
C4_Witness ==
    \E t \in DOMAIN topics :
        \E i, j, k \in 1..Len(hist[t]) :
            /\ i < j /\ j < k
            /\ RowsOfAppend(t, hist[t][i]) = {}
            /\ hist[t][j].raw /\ hist[t][j].n = 2
            /\ RowsOfAppend(t, hist[t][j]) # {}

\* the rows a Read of topic t from offset from selects among
Qualifying(t, from) == {r \in db_messages : r.topic = t /\ r.last_offset >= from}

\* C5: Read(topic, from, limit) returns, in ascending offset order, exactly
\* the first min(limit, k) of the k rows of the topic with last_offset >= from,
\* and returns the empty result without error when there is none.
C5_ReadFirstRowsAscending ==
    (res.op = "Read" /\ res.topic \in DOMAIN topics) =>
        LET q == Qualifying(res.topic, res.from)
            recs == res.records
        IN  /\ res.ok
            /\ Len(recs) = Min(res.limit, Cardinality(q))
            /\ \A i, j \in 1..Len(recs) : i < j => recs[i].Offset < recs[j].Offset
            /\ \A i \in 1..Len(recs) :
                  \E r \in q : /\ r.offset = recs[i].Offset
                               /\ r.last_offset = recs[i].LastOffset
                               /\ r.timestamp = recs[i].Timestamp
                               /\ r.value = recs[i].Value
            /\ \A r \in q :
                  (\A i \in 1..Len(recs) : recs[i].Offset # r.offset) =>
                      \A i \in 1..Len(recs) : recs[i].Offset < r.offset

\* a Read from inside a batch, cut by its limit, of a topic that has a row
\* below the requested offset, while another topic holds rows too
C5_Witness ==
    /\ res.op = "Read" /\ res.ok
    /\ res.from > 0
    /\ Len(res.records) = res.limit
    /\ res.limit >= 1
    /\ Cardinality(Qualifying(res.topic, res.from)) > res.limit
    /\ res.records[1].Offset < res.from
    /\ \E r \in RowsOf(db_messages, res.topic) : r.last_offset < res.from
    /\ \E r \in db_messages : r.topic # res.topic

(***************************************************************************)
(* The invariants of a group: state, leader and generation.                *)
(***************************************************************************)
\* C11: in every reachable state every group has state "empty" exactly when
\* it has no members, whatever sequence of GetOrCreateGroup, AddMember,
\* RemoveMember, UpdateHeartbeat, SetMemberAssignment, IncrementGeneration,
\* CommitOffset and ExpireMembers led to it.
C11_EmptyStateIffNoMembers ==
    \A id \in DOMAIN groups :
        (groups[id].State = "empty") <=> (DOMAIN groups[id].Members = {})

\* C12: in every reachable state the leader of every group is "" or one of
\* its members.
C12_LeaderIsMemberOrEmpty ==
    \A id \in DOMAIN groups :
        groups[id].LeaderID = "" \/ groups[id].LeaderID \in DOMAIN groups[id].Members

\* C13: the generation of a group id is never below one that
\* IncrementGeneration returned for that id earlier, across every group
\* operation, DeleteGroup followed by GetOrCreateGroup, and restarts.
C13_GenerationNeverDecreases ==
    \A id \in DOMAIN observed :
        id \in DOMAIN groups => groups[id].Generation >= observed[id]

(***************************************************************************)
(* Expiry sweeps.                                                          *)
(***************************************************************************)
\* C17: one call of ExpireMembers(session_timeout) leaves, in every group,
\* exactly the members whose last heartbeat is at most session_timeout old,
\* each as it was, and returns exactly the others.
C17_SweepRemovesExactlyStale ==
    [][sweeps'.n = sweeps.n + 1 =>
          /\ DOMAIN groups' = DOMAIN groups
          /\ \A id \in DOMAIN groups :
                LET fresh == {m \in DOMAIN groups[id].Members :
                                 now - groups[id].Members[m].LastHeartbeat <= SessionTimeout}
                IN  /\ DOMAIN groups'[id].Members = fresh
                    /\ \A m \in fresh : groups'[id].Members[m] = groups[id].Members[m]
                    /\ \A m \in DOMAIN groups[id].Members \ fresh :
                          <<id, m>> \in sweeps'.expired]_vars

\* a sweep has removed m1 from g1 and kept m2, whose heartbeat is exactly
\* session_timeout old, while it removed the only member of g2
C17_Witness ==
    /\ sweeps.n >= 1
    /\ sweeps.expired = {<<"g1", "m1">>, <<"g2", "m2">>}
    /\ "g1" \in DOMAIN groups /\ "g2" \in DOMAIN groups
    /\ DOMAIN groups["g1"].Members = {"m2"}
    /\ now - groups["g1"].Members["m2"].LastHeartbeat = SessionTimeout
    /\ DOMAIN groups["g2"].Members = {}

(***************************************************************************)
(* The Kafka group requests.                                               *)
(***************************************************************************)
\* a group request of kind api is answered in this step
Answers(api) == kafka'.n = kafka.n + 1 /\ kafka'.api = api

\* C14: when a JoinGroup request for group g is answered with member id m,
\* m is a member of g, and the leader of g if g had no members before.
C14_AnsweredJoinAddsMember ==
    [][Answers("JoinGroup") =>
          /\ kafka'.group \in DOMAIN groups'
          /\ kafka'.member \in DOMAIN groups'[kafka'.group].Members
          /\ (kafka'.group \notin DOMAIN groups
                 \/ DOMAIN groups[kafka'.group].Members = {})
                => groups'[kafka'.group].LeaderID = kafka'.member]_vars

\* C15: a SyncGroup request of member m is answered with the bytes a
\* SyncGroup request last carried for m, also when m's own request carries
\* no assignments, and with empty bytes when none was carried for m.
C15_SyncAnswersCarriedAssignment ==
    kafka.api = "SyncGroup" =>
        kafka.bytes = IF kafka.member \in DOMAIN carried THEN carried[kafka.member] ELSE ""

\* C16: a Heartbeat request for (g, m) with m a member of g sets the last
\* heartbeat of m to the current time.
C16_HeartbeatRequestRefreshes ==
    [][(/\ Answers("Heartbeat")
        /\ kafka'.group \in DOMAIN groups
        /\ kafka'.member \in DOMAIN groups[kafka'.group].Members)
          => /\ kafka'.group \in DOMAIN groups'
             /\ kafka'.member \in DOMAIN groups'[kafka'.group].Members
             /\ groups'[kafka'.group].Members[kafka'.member].LastHeartbeat = now]_vars

(***************************************************************************)
(* Parked fetches.                                                         *)
(***************************************************************************)
\* a row with last_offset >= the requested offset is in the topic of p
DataAvailable(p) ==
    \E r \in db_messages : r.topic = p.Topic /\ r.last_offset >= p.Offset

\* C19: a run of the fetch scheduler completes every parked fetch whose
\* deadline has come (now >= deadline) or whose topic holds a row with
\* last_offset >= its requested offset, whatever its max_bytes: a result is
\* on its channel and it is no longer in the queue.
C19_TickCompletesDueFetches ==
    [][ticks' # ticks =>
          \A i \in 1..Len(pending) :
              (now >= pending[i].Deadline \/ DataAvailable(pending[i]))
                  => /\ \A j \in 1..Len(pending') : pending'[j].id # pending[i].id
                     /\ chans'[pending[i].id].buf # <<>>]_vars

\* C20: when the handler of connection c returns, the queue keeps exactly
\* the parked fetches of the other connections, in their order and with
\* their channels as they were, and the channel of every parked fetch of c
\* is closed.
C20_ExitRemovesOwnFetchesOnly ==
    [][\A c \in Conns : (c \in exited' /\ c \notin exited) =>
          /\ \A i \in 1..Len(pending) :
                IF pending[i].Conn = c
                THEN /\ chans'[pending[i].id].closed
                     /\ \A j \in 1..Len(pending') : pending'[j].id # pending[i].id
                ELSE /\ chans'[pending[i].id] = chans[pending[i].id]
                     /\ \E j \in 1..Len(pending') : pending'[j] = pending[i]
          /\ Len(pending') = Cardinality({i \in 1..Len(pending) : pending[i].Conn # c})
          /\ \A id \in DOMAIN chans :
                (\A i \in 1..Len(pending) : pending[i].id # id) => chans'[id] = chans[id]]_vars

\* the handler of c1 has returned with a fetch parked: its channel is closed
\* with nothing sent, and the fetch of c2 is still parked on an open channel
C20_Witness ==
    /\ exited = {"c1"}
    /\ Len(pending) = 1 /\ pending[1].Conn = "c2"
    /\ ~chans[pending[1].id].closed
    /\ \E id \in DOMAIN chans : chans[id].closed /\ chans[id].buf = <<>>

(***************************************************************************)
(* Expiry while the engine runs.                                           *)
(***************************************************************************)
\* m is a member of group id and its last heartbeat is older than
\* session_timeout
Stale(id, m) ==
    /\ id \in DOMAIN groups
    /\ m \in DOMAIN groups[id].Members
    /\ now - groups[id].Members[m].LastHeartbeat > SessionTimeout

\* C18: while the engine runs, a member whose last heartbeat has become
\* older than session_timeout and that sends no further heartbeat is
\* eventually no longer a member of its group.
C18_SilentMemberExpires ==
    \A id \in Groups, m \in Members : Stale(id, m) ~> ~Stale(id, m)

(***************************************************************************)
(* The connection limit and the shutdown of the Kafka server.              *)
(***************************************************************************)
\* the connections whose handler goroutine has been started and has not ended
Running == {c \in Conns : server.handler[c] # "none"}

\* the connections whose handler is in its request loop
Serving == {c \in Conns : server.handler[c] = "loop"}

\* the connections the accept loop has counted and whose handler has not yet
\* taken them off the counter
Counted ==
    {c \in Conns : \/ server.accept.conn = c /\ server.accept.pc \in {"store", "add", "go"}
                   \/ server.handler[c] \in {"loop", "closed", "deleted"}}

\* a connection accepted at the limit is closed and gets no handler: the
\* accept loop's step from its check
RejectedAtLimit ==
    [][(server.accept.pc = "limit" /\ LimitReached(server.connCount)
           /\ server'.accept # server.accept)
          => LET c == server.accept.conn
             IN  /\ server'.sock[c] = "idle"
                 /\ server'.handler[c] = "none"
                 /\ server'.accept.pc = "accept"
                 /\ server'.connCount = server.connCount
                 /\ server'.connections = server.connections]_vars

\* C21 as stated: in every reachable state at most max_connections
\* connections have a running handler, the connection counter equals the
\* number of connections whose handler has been started and has not finished
\* its cleanup, and a connection accepted while the counter is at or above
\* the limit is closed without a handler being started.
C21_CounterIsRunningHandlers ==
    /\ [](/\ Cardinality(Running) <= MaxConnections
          /\ server.connCount = Cardinality(Running))
    /\ RejectedAtLimit

\* C21, amended: in every reachable state at most max_connections
\* connections have a handler in its request loop, the connection counter is
\* at most max_connections and equals the number of connections the accept
\* loop has counted and whose handler has not yet decremented the counter in
\* its cleanup, and a connection accepted while the counter is at or above
\* the limit is closed without a handler being started.
C21_CounterIsCountedConnections ==
    /\ [](/\ Cardinality(Serving) <= MaxConnections
          /\ server.connCount <= MaxConnections
          /\ server.connCount = Cardinality(Counted))
    /\ RejectedAtLimit

\* a connection has been accepted while the counter is at the limit
C21_Witness ==
    /\ server.accept.pc = "limit"
    /\ LimitReached(server.connCount)
    /\ Serving # {}

\* C30: once Close has returned the listener is closed, no connection
\* handler is still running, the connection set is empty and the connection
\* counter is 0, also when a connection was being accepted while Close ran.
C30_ClosedServerIsQuiet ==
    server.close = "returned"
        => /\ server.listener = "closed"
           /\ Running = {}
           /\ server.connections = {}
           /\ server.connCount = 0

\* C30, its first half: under fair scheduling a call of Close returns
C30_CloseReturns == (server.close # "idle") ~> (server.close = "returned")

(***************************************************************************)
(* Topic requests.                                                         *)
(***************************************************************************)
\* caller p's handler of a request of kind api answers in this step
Replies(p, api) ==
    /\ calls[p].api = api
    /\ calls[p].pc \in {"exists", "create", "store"}
    /\ calls'[p].pc = "done"

\* C22: for the topic named in a Metadata request: if the topic exists, or
\* it does not exist and allow_auto_topic_creation is true, the topic exists
\* after the request and the entry carries no error; otherwise the entry
\* carries UNKNOWN_TOPIC_OR_PARTITION and no topic is created; also when
\* another request creates the same topic concurrently.
C22_MetadataEntryMatchesTopic ==
    [][\A p \in Producers :
          Replies(p, "Metadata") =>
              LET t == calls[p].topic
              IN  IF calls[p].allow \/ TopicExists(topics, t)
                  THEN TopicExists(topics', t) /\ calls'[p].error = "NONE"
                  ELSE /\ calls'[p].error = "UNKNOWN_TOPIC_OR_PARTITION"
                       /\ topics' = topics]_vars

\* C23: with config.Topics.AutoCreate off, a topic comes into existence
\* only by the step of an explicit create request.
C23_NoTopicWithoutCreateRequest ==
    [][~autoCreate =>
          \A t \in DOMAIN topics' \ DOMAIN topics :
              \E p \in Producers : Replies(p, "CreateTopics") /\ calls[p].topic = t]_vars

\* the callers whose CreateTopics request for topic t was answered without error
Created(t) ==
    {p \in Producers : /\ calls[p].api = "CreateTopics" /\ calls[p].topic = t
                       /\ calls[p].pc = "done" /\ calls[p].error = "NONE"}

\* C24: a CreateTopics entry for a name that exists is answered
\* TOPIC_ALREADY_EXISTS and changes nothing; an entry for a new name is
\* answered without error and the topic then exists with latest_offset -1;
\* of the create requests for one new name exactly one is answered without
\* error: the one whose step creates the topic.
C24_CreateTopicsOncePerName ==
    /\ [][\A p \in Producers :
             Replies(p, "CreateTopics") =>
                 LET t == calls[p].topic
                 IN  IF TopicExists(topics, t)
                     THEN /\ calls'[p].error = "TOPIC_ALREADY_EXISTS"
                          /\ UNCHANGED <<db_topics, db_messages, topics, hist>>
                     ELSE /\ calls'[p].error = "NONE"
                          /\ TopicExists(topics', t)
                          /\ LatestOffset(topics', t) = -1
                          /\ db_topics'[t].latest_offset = -1
                          /\ RowsOf(db_messages', t) = {}]_vars
    /\ [](\A t \in Topics : Cardinality(Created(t)) <= 1)

\* one create request was answered without error, the topic got a record,
\* and a later create request for it was answered TOPIC_ALREADY_EXISTS
C24_Witness ==
    /\ Created("t1") # {}
    /\ hist["t1"] # <<>>
    /\ \E p \in Producers : /\ calls[p].api = "CreateTopics" /\ calls[p].pc = "done"
                            /\ calls[p].error = "TOPIC_ALREADY_EXISTS"

(***************************************************************************)
(* ListOffsets and retention.                                              *)
(***************************************************************************)
\* the records of the appends h
RECURSIVE RecordCount(_)
RecordCount(h) == IF h = <<>> THEN 0 ELSE h[1].n + RecordCount(Tail(h))

\* C25: for an existing topic a ListOffsets entry with timestamp -1 returns
\* latest_offset + 1, the number of records the topic has received (0 for
\* none), and an entry with timestamp -2 returns the smallest base offset
\* still stored; for a topic that does not exist the entry carries
\* UNKNOWN_TOPIC_OR_PARTITION.
C25_ListOffsetsLatestAndEarliest ==
    [][\A p \in Producers :
          (/\ calls'[p] # calls[p]
           /\ calls'[p].api = "ListOffsets"
           /\ calls'[p].ts \in {-1, -2})
          => LET a == calls'[p]
                 t == a.topic
                 offs == {r.offset : r \in RowsOf(db_messages, t)}
             IN  IF t \in DOMAIN topics
                 THEN /\ a.error = "NONE"
                      /\ a.ts = -1 => /\ a.offset = topics[t].LatestOffset + 1
                                      /\ a.offset = RecordCount(hist[t])
                      /\ (a.ts = -2 /\ offs # {}) =>
                             a.offset \in offs /\ \A o \in offs : a.offset <= o
                 ELSE a.error = "UNKNOWN_TOPIC_OR_PARTITION"]_vars

\* an entry with timestamp -2 was answered after retention removed the
\* topic's first rows, and an entry with timestamp -1 is at hand with
\* records appended
C25_Witness ==
    /\ calls["p1"].api = "ListOffsets" /\ calls["p1"].error = "NONE"
    /\ calls["p1"].ts = -2 /\ calls["p1"].offset > 0
    /\ ListOffsetsEntry(topics, db_messages, "t1", -1).offset > calls["p1"].offset

\* the last append to topic t that returned success
LastAppend(h) == h[Len(h)]

\* C26: a retention sweep with cutoff c = now - max_age deletes, in every
\* topic, exactly the rows whose timestamp is before c; it leaves every
\* other row, every topic's latest_offset and all committed offsets
\* unchanged, so the next append gets base offset latest_offset + 1 and no
\* offset is assigned twice.
C26_SweepDeletesExactlyOldRows ==
    /\ [][(db_messages' # db_messages /\ appends' = appends)
             => /\ db_messages' = {r \in db_messages : ~(r.timestamp < now - MaxAge)}
                /\ topics' = topics
                /\ db_topics' = db_topics
                /\ db_offsets' = db_offsets
                /\ groups' = groups]_vars
    /\ [][\A t \in Topics :
             Len(hist'[t]) > Len(hist[t])
             => /\ LastAppend(hist'[t]).base = topics[t].LatestOffset + 1
                /\ \A i \in 1..Len(hist[t]) :
                      hist[t][i].base + hist[t][i].n <= LastAppend(hist'[t]).base]_vars

\* a sweep has deleted the rows of a topic's first append, a committed
\* offset is at hand, and the topic has been appended to after the sweep
C26_Witness ==
    /\ Len(hist["t1"]) >= 2
    /\ RowsOfAppend("t1", hist["t1"][1]) = {}
    /\ RowsOfAppend("t1", LastAppend(hist["t1"])) # {}
    /\ <<"g1", "t1">> \in DOMAIN db_offsets

(***************************************************************************)
(* Topic deletion.                                                         *)
(***************************************************************************)
\* the appends to t1 made before its last deletion: those that returned
\* success and are not among the appends since t1 was last created
DeletedAppends ==
    {id \in 1..appends : \A i \in 1..Len(hist["t1"]) : hist["t1"][i].id # id}

\* C27: after DeleteTopic(t) has succeeded t does not exist, and no record
\* appended to it before the deletion is stored or returned by a Read at
\* any later time, also after t has been created again; the new topic
\* starts with latest_offset -1 and no rows.
C27_DeletedRecordsStayGone ==
    /\ [](/\ \A r \in RowsOf(db_messages, "t1") : r.value[1] \notin DeletedAppends
          /\ (res.op = "Read" /\ res.ok) =>
                 \A i \in 1..Len(res.records) : res.records[i].Value[1] \notin DeletedAppends
          /\ ~TopicExists(topics, "t1") =>
                 /\ "t1" \notin DOMAIN db_topics
                 /\ RowsOf(db_messages, "t1") = {}
                 /\ res.op = "Read" => ~res.ok)
    /\ [][(~TopicExists(topics, "t1") /\ TopicExists(topics', "t1"))
             => /\ LatestOffset(topics', "t1") = -1
                /\ db_topics'["t1"].latest_offset = -1
                /\ RowsOf(db_messages', "t1") = {}]_vars
    /\ [][(TopicExists(topics, "t1") /\ ~TopicExists(topics', "t1"))
             => DeletedAppends' = 1..appends]_vars

\* t1 was appended to, deleted, created again and appended to, and a Read
\* from offset 0 returned only the new record
C27_Witness ==
    /\ DeletedAppends # {}
    /\ TopicExists(topics, "t1")
    /\ res.op = "Read" /\ res.ok /\ res.from = 0
    /\ Len(res.records) = 1
    /\ res.records[1].Offset = 0

(***************************************************************************)
(* Bad frames and unsupported requests on a connection.                    *)
(***************************************************************************)
\* C28: a frame whose length prefix is out of range, or whose header or
\* body cannot be decoded, causes the connection to be closed: no later
\* request on that connection is processed.
C28_BadFrameClosesConnection ==
    /\ [](\A c \in Conns :
             \A k \in 1..Len(conn[c].readLog) :
                 conn[c].readLog[k].api = "Malformed" =>
                     /\ k = Len(conn[c].readLog)
                     /\ conn[c].pc = "handle" \/ ~conn[c].open)
    /\ [][\A c \in Conns :
             (/\ conn[c].pc = "read" /\ conn'[c].pc # "read"
              /\ Head(conn[c].inbox).api = "BadSize")
             => ~conn'[c].open /\ conn'[c].pc = "closed"]_vars

\* the responses connection c has written under correlation id n
Written(c, n) == {i \in 1..Len(conn[c].out) : conn[c].out[i].corr = n}

\* C29: on a connection that passes the authentication gate, a request
\* whose header decodes but whose API key is not supported is answered with
\* exactly one response that carries its correlation id and
\* UNSUPPORTED_VERSION, changes no engine or store state, and leaves the
\* connection open for further requests.
C29_UnsupportedApiAnswered ==
    /\ [][\A c \in Conns :
             (conn[c].authenticated /\ conn[c].cur.api = "Unknown") =>
                 /\ Handles(c) =>
                       /\ conn'[c].pc = "write"
                       /\ conn'[c].resp = [corr |-> conn[c].cur.corr,
                                           error |-> "UNSUPPORTED_VERSION"]
                       /\ Written(c, conn[c].cur.corr) = {}
                       /\ UNCHANGED <<topicVars, prod, groupVars, pendingVars>>
                 /\ (conn[c].pc = "write" /\ conn'[c].pc # "write") =>
                       /\ conn'[c].open
                       /\ conn'[c].pc = "read"
                       /\ conn'[c].out = Append(conn[c].out, conn[c].resp)
                       /\ UNCHANGED <<topicVars, prod, groupVars, pendingVars>>]_vars
    /\ [](\A c \in Conns :
             \A k \in 1..Len(conn[c].readLog) :
                 conn[c].readLog[k].api = "Unknown" =>
                     /\ Cardinality(Written(c, conn[c].readLog[k].corr)) <= 1
                     /\ (k < Len(conn[c].readLog) \/ conn[c].cur = NoRequest)
                           => Cardinality(Written(c, conn[c].readLog[k].corr)) = 1
                     /\ \A i \in Written(c, conn[c].readLog[k].corr) :
                           conn[c].out[i].error \in
                               IF security.Enabled
                               THEN {"UNSUPPORTED_VERSION", "SASL_AUTHENTICATION_FAILED"}
                               ELSE {"UNSUPPORTED_VERSION"})

\* an authenticated connection has answered a request of an unsupported
\* kind with UNSUPPORTED_VERSION and a later request without error
C29_Witness ==
    \E c \in Conns :
        /\ security.Enabled /\ conn[c].sasl
        /\ conn[c].open
        /\ \E i, j \in 1..Len(conn[c].out) :
              /\ i < j
              /\ conn[c].out[i].error = "UNSUPPORTED_VERSION"
              /\ conn[c].out[j].error = "NONE"

(***************************************************************************)
(* Variable-length integers.                                               *)
(***************************************************************************)
\* C31: for every signed 64-bit integer n, decoding with ReadVarInt the
\* bytes written by WriteVarInt(n) returns n and consumes exactly the bytes
\* written.
C31_VarIntRoundTrip ==
    calls.pc = "Read" =>
        /\ ~calls.err
        /\ calls.value = calls.n
        /\ calls.consumed = Len(calls.bytes)

\* the part of C31 that holds: the decoder consumes exactly the bytes
\* written, and returns n whenever -2^62 <= n < 2^62
VarIntRoundTripBelow62 ==
    calls.pc = "Read" =>
        /\ ~calls.err
        /\ calls.consumed = Len(calls.bytes)
        /\ ((62 \in calls.n) = (63 \in calls.n) => calls.value = calls.n)

(***************************************************************************)
(* The offset ranges of the stored rows.                                   *)
(***************************************************************************)
\* the rows of topic t are well-formed, pairwise disjoint, and chained
\* without a gap up to the cached latest_offset
RangesContiguous(t) ==
    LET rows == RowsOf(db_messages, t)
    IN  /\ \A r \in rows : r.last_offset >= r.offset
        /\ \A r, q \in rows :
              r # q => r.last_offset < q.offset \/ q.last_offset < r.offset
        /\ rows # {} =>
              /\ t \in DOMAIN topics
              /\ \A r \in rows :
                    \/ r.last_offset = topics[t].LatestOffset
                    \/ \E q \in rows : q.offset = r.last_offset + 1

\* C32: in every reachable state and for every topic, each stored row has
\* last_offset >= offset, no two rows of the topic have overlapping
\* [offset, last_offset] ranges, and the rows still present cover a
\* gap-free range that ends at latest_offset, for every record list and
\* every record count that Append and AppendRaw can be called with.
C32_RowRangesDisjointContiguous == \A t \in Topics : RangesContiguous(t)

(***************************************************************************)
(* What one scheduler tick does to the queue.                              *)
(***************************************************************************)
\* the deadline of p has passed
Expired(p) == now > p.Deadline

\* the read Process makes for p
ReadFor(p) ==
    SQLiteRead(db_messages, topics, p.Topic, p.Offset, GoDiv(p.MaxBytes, 1024))

\* p is in the queue after the step
Stays(p) == \E j \in 1..Len(pending') : pending'[j] = p

\* the step sent exactly the result r on the channel of p
Got(p, r) == chans'[p.id] = [chans[p.id] EXCEPT !.buf = Append(@, r)]

\* the entries that stay are in their old relative order and nothing else
\* is in the queue
OrderKept ==
    /\ \A j \in 1..Len(pending') : \E i \in 1..Len(pending) : pending[i] = pending'[j]
    /\ \A i, k \in 1..Len(pending) :
          (i < k /\ Stays(pending[i]) /\ Stays(pending[k])) =>
              \E j, l \in 1..Len(pending') :
                  j < l /\ pending'[j] = pending[i] /\ pending'[l] = pending[k]

AppendsForEntry(c) ==
    /\ conn[c].pc = "produce"
    /\ prod[c].pc = "Append"
    /\ prod'[c].pc = "done" /\ prod'[c].ok

\* C34: each partition entry of a wire Produce request that is answered
\* without error has stored its batch bytes as exactly one row and advanced
\* the topic's latest_offset by exactly 1, and the base offset returned
\* equals the new latest_offset, whatever number of logical records the
\* batch carries and whatever partition index the entry names.
C34_ProduceEntryStoresOneRow ==
    [][\A c \in Conns :
          /\ AppendsForEntry(c) =>
                LET t == prod[c].topic
                    new == db_messages' \ db_messages
                IN  /\ db_messages \subseteq db_messages'
                    /\ Cardinality(new) = 1
                    /\ \A r \in new :
                          /\ r.topic = t
                          /\ r.value = <<appends', 0>>
                          /\ r.offset = prod'[c].base
                    /\ topics'[t].LatestOffset = topics[t].LatestOffset + 1
                    /\ db_topics'[t].latest_offset = topics'[t].LatestOffset
                    /\ prod'[c].base = topics'[t].LatestOffset
          /\ (conn[c].pc = "produce" /\ conn'[c].pc = "write") =>
                /\ prod[c].pc = "done"
                /\ conn'[c].resp.corr = conn[c].cur.corr
                /\ conn'[c].resp.index = conn[c].cur.index
                /\ (conn'[c].resp.error = "NONE") = prod[c].ok
                /\ prod[c].ok => conn'[c].resp.base = prod[c].base]_vars

\* an entry for partition 1 whose batch carries two records has been
\* answered without error with base offset 1, after an earlier entry
C34_Witness ==
    \E c \in Conns :
        /\ conn[c].pc = "write"
        /\ "base" \in DOMAIN conn[c].resp
        /\ conn[c].resp.error = "NONE" /\ conn[c].resp.base = 1
        /\ conn[c].resp.index = 1 /\ conn[c].cur.records = 2
        /\ topics["t1"].LatestOffset = 1
        /\ Cardinality(RowsOf(db_messages, "t1")) = 2

(***************************************************************************)
(* The offsets of a Fetch response entry.                                  *)
(***************************************************************************)
\* caller p holds the entry of a Fetch answered without error
FetchAnswered(p) ==
    calls[p].api = "Fetch" /\ calls[p].pc = "done" /\ calls[p].error = "NONE"

\* C35: in every Fetch response entry for an existing topic, high_watermark
\* = last_stable_offset, log_start_offset <= high_watermark, and any batch
\* returned has a base offset below high_watermark, under any interleaving
\* of the fetch with concurrent produces, retention sweeps and topic
\* deletion.
C35_FetchEntryOffsetsOrdered ==
    \A p \in Producers :
        FetchAnswered(p) =>
            /\ calls[p].hw = calls[p].lso
            /\ calls[p].logStart <= calls[p].hw
            /\ calls[p].records # <<>> => calls[p].records[1].Offset < calls[p].hw

(***************************************************************************)
(* The earliest offset over appends and retention sweeps.                  *)
(***************************************************************************)
\* what a ListOffsets entry with timestamp -2 for t reports in this state
\* (the log_start_offset of a Fetch entry is the same store call)
ReportedEarliest(cache, msgs, t) == ListOffsetsEntry(cache, msgs, t, -2).offset

\* the base offsets of the appends to t whose row retention has removed
RemovedOffsets(t) ==
    {hist[t][i].base : i \in {j \in 1..Len(hist[t]) : RowsOfAppend(t, hist[t][j]) = {}}}

\* C36: for a topic that is not deleted, the earliest offset reported for
\* it (log_start_offset in Fetch, ListOffsets with timestamp -2) never
\* decreases over any sequence of appends and retention sweeps, and is never
\* below an offset whose row retention has already removed.
C36_EarliestOffsetNeverDecreases ==
    /\ [](\A t \in DOMAIN topics : \A o \in RemovedOffsets(t) :
             ReportedEarliest(topics, db_messages, t) >= o)
    /\ [][\A t \in DOMAIN topics :
             ReportedEarliest(topics', db_messages', t)
                 >= ReportedEarliest(topics, db_messages, t)]_vars

(***************************************************************************)
(* Offsets committed and fetched over the wire.                            *)
(***************************************************************************)
\* caller q is answered an OffsetFetch in this step
FetchesOffset(q) == calls'[q] # calls[q] /\ calls'[q].api = "OffsetFetch"

\* the last OffsetCommit entry, of caller p, was answered without error
CommitAnswered(p) ==
    calls[p].api = "OffsetCommit" /\ calls[p].pc = "done" /\ calls[p].error = "NONE"

\* C37: every partition entry of an OffsetCommit request that is answered
\* without error has had its offset stored for its group and topic, so an
\* OffsetFetch for the same group, topic and partition issued afterwards,
\* with no other commit in between, returns that offset.
C37_CommittedOffsetIsFetched ==
    /\ [](CommitAnswered("p1") =>
             /\ <<calls["p1"].group, calls["p1"].topic>> \in DOMAIN db_offsets
             /\ db_offsets[<<calls["p1"].group, calls["p1"].topic>>] = calls["p1"].offset)
    /\ [][(/\ CommitAnswered("p1")
           /\ FetchesOffset("p2")
           /\ calls'["p2"].group = calls["p1"].group
           /\ calls'["p2"].topic = calls["p1"].topic
           /\ calls'["p2"].index = calls["p1"].index)
             => calls'["p2"].offset = calls["p1"].offset]_vars

\* C37 for the entries of partition 0, the only ones the handler stores
CommittedOffsetOfPartition0IsFetched ==
    /\ []((CommitAnswered("p1") /\ calls["p1"].index = 0) =>
             /\ <<calls["p1"].group, calls["p1"].topic>> \in DOMAIN db_offsets
             /\ db_offsets[<<calls["p1"].group, calls["p1"].topic>>] = calls["p1"].offset)
    /\ [][(/\ CommitAnswered("p1") /\ calls["p1"].index = 0
           /\ FetchesOffset("p2")
           /\ calls'["p2"].group = calls["p1"].group
           /\ calls'["p2"].topic = calls["p1"].topic
           /\ calls'["p2"].index = calls["p1"].index)
             => calls'["p2"].offset = calls["p1"].offset]_vars

(***************************************************************************)
(* The group cache and the database behind it.                             *)
(***************************************************************************)
\* state, generation, leader, member set and committed offsets of every group
CacheView(cache) ==
    [id \in DOMAIN cache |->
        [State |-> cache[id].State, Generation |-> cache[id].Generation,
         LeaderID |-> cache[id].LeaderID, Members |-> DOMAIN cache[id].Members,
         Offsets |-> cache[id].Offsets]]

\* C38: in every reachable state, including after a database statement
\* inside a group operation has failed, the in-memory group cache (state,
\* generation, leader_id, member set, committed offsets of every group)
\* equals what a restart would load from the database.
C38_CacheEqualsDatabase ==
    CacheView(groups) = CacheView(LoadGroups(db_groups, db_members, db_offsets))

(***************************************************************************)
(* Ticks, the queue's mutex and the result channels.                       *)
(***************************************************************************)
\* C39: a scheduler tick always finishes and releases the pending-queue
\* mutex: delivering a result to a parked fetch never blocks the tick, so
\* Add, Remove, Len and the cleanup of closing connections are never blocked
\* indefinitely by a tick, whether or not anything is still receiving on the
\* entry's result channel.
C39_TickAlwaysFinishes == (sched.mu = "tick") ~> (sched.mu = "free")

\* C39 for the entries parked on a channel with room for one result
TickFinishesOnBufferedChannels ==
    (sched.mu = "tick" /\ \A id \in DOMAIN chans : chans[id].cap = 1)
        ~> (sched.mu = "free")


\* C40: each parked fetch receives at most one result on its result
\* channel, and nothing is ever sent on a result channel after it has been
\* closed by connection removal, under any interleaving of scheduler ticks,
\* Add and Remove.
C40_OneResultAndNoneAfterClose ==
    /\ [](\A id \in DOMAIN chans :
             /\ Len(chans[id].buf) <= 1
             /\ chans[id].closed => chans[id].buf = <<>>)
    /\ [][\A id \in DOMAIN chans :
             chans[id].closed => chans'[id].buf = chans[id].buf]_vars

\* a tick has sent one result to the fetch of one connection while the
\* fetch of another was removed and its channel closed with nothing sent,
\* and a later tick holds the mutex
C40_Witness ==
    /\ sched.mu = "tick"
    /\ \E id \in DOMAIN chans : Len(chans[id].buf) = 1 /\ ~chans[id].closed
    /\ \E id \in DOMAIN chans : chans[id].closed /\ chans[id].buf = <<>>

=============================================================================
